---- MODULE Spec2Model ----
(***************************************************************************)
(* A model of the symbolic checking engine of flux (formerly liquid-rust): *)
(* the per-procedure CFG fixpoint checker (Checker::run and its handlers), *)
(* the subtyping engine that emits refinement obligations, and the         *)
(* call-site instantiation of ConstrGen::check_fn_call.                    *)
(***************************************************************************)
EXTENDS Integers, Sequences, FiniteSets, TLC

VARIABLES
    prog,       \* the procedure under check: body (CFG) and lowered signature
    phase,      \* "init" | "infer" | "check" | "done"
    stack,      \* pending check_goto calls of the depth-first recursion
    queue,      \* Checker.queue   (WorkQueue: a deque without duplicates)
    visited,    \* Checker.visited (BitSet<BasicBlock>)
    snapshots,  \* Checker.snapshots: block -> node of the context, 0 = None
    pcx,        \* the PureCtxt: its tree of nodes and its name generator
    ret,        \* Checker.ret and Checker.ensures after substitution
    inf_envs,   \* Inference.bb_envs : block -> TypeEnv
    shapes,     \* Check.shapes      : block -> TypeEnvShape
    chk_envs,   \* Check.bb_envs     : block -> BasicBlockEnv
    kvars,      \* KVarStore: the number of kvars allocated
    log,        \* history of the handlers' observable events
    call,       \* check_fn_call: the call checked (kind of argument, types, build)
    cpc,        \* check_fn_call: the position of the control
    cenv,       \* check_fn_call: env, the symbolic heap (types, blocked locations)
    rcx,        \* check_fn_call: rcx, the refinement context and its cursor
    infcx,      \* check_fn_call: the inference context (scopes and evars)
    cfn,        \* check_fn_call: the instantiated signature, the actuals, the loop index
    cout        \* check_fn_call: the CallOutput returned

\* the state of Checker::run
runvars == <<prog, phase, stack, queue, visited, snapshots, pcx, ret,
             inf_envs, shapes, chk_envs, kvars, log>>

\* the state of ConstrGen::check_fn_call
callvars == <<call, cpc, cenv, rcx, infcx, cfn, cout>>

vars == <<runvars, callvars>>

-----------------------------------------------------------------------------
(* Bounds of the model *)

\* number of basic blocks of the generated control-flow graphs
NumBlocks == 3

\* the refinement variables of an obligation range over -MaxVal..MaxVal
\* when the obligation is discharged
MaxVal == 3

-----------------------------------------------------------------------------
(* Generic helpers *)

Range(s) == {s[i] : i \in DOMAIN s}

RECURSIVE SeqOfSet(_)
SeqOfSet(S) ==
    IF S = {} THEN <<>>
    ELSE LET x == CHOOSE y \in S : \A z \in S : y <= z
         IN  <<x>> \o SeqOfSet(S \ {x})

\* a map extended or overwritten at one key
MapWith(m, k, v) == [x \in DOMAIN m \cup {k} |-> IF x = k THEN v ELSE m[x]]

None == 0

-----------------------------------------------------------------------------
(* Terms: expressions, predicates and types (ty.rs) *)

EConst(n)      == <<"Const", n>>
EVar(x)        == <<"Var", x>>
EBound         == <<"BVar">>
EBin(op, a, b) == <<"Bin", op, a, b>>
ENot(a)        == <<"Not", a>>
ENeg(a)        == <<"Neg", a>>
PKVar(k, args) == <<"KVar", k, args>>
PHole          == <<"Hole">>
ETrue          == EConst(1)
EFalse         == EConst(0)

TUninit        == <<"Uninit">>
TRefine(b, e)  == <<"Refine", b, e>>
TExists(b, p)  == <<"Exists", b, p>>

\* Pred::subst_bound_vars: the bound variable of an existential replaced by e
RECURSIVE SubstBound(_, _)
SubstBound(t, e) ==
    CASE t[1] = "BVar" -> e
      [] t[1] = "Bin"  -> EBin(t[2], SubstBound(t[3], e), SubstBound(t[4], e))
      [] t[1] = "Not"  -> ENot(SubstBound(t[2], e))
      [] t[1] = "Neg"  -> ENeg(SubstBound(t[2], e))
      [] t[1] = "KVar" -> PKVar(t[2], [i \in DOMAIN t[3] |-> SubstBound(t[3][i], e)])
      [] OTHER         -> t

\* Subst::subst_pred / subst_expr: free names replaced along the map m
RECURSIVE SubstFree(_, _)
SubstFree(t, m) ==
    CASE t[1] = "Var"  -> IF t[2] \in DOMAIN m THEN m[t[2]] ELSE t
      [] t[1] = "Bin"  -> EBin(t[2], SubstFree(t[3], m), SubstFree(t[4], m))
      [] t[1] = "Not"  -> ENot(SubstFree(t[2], m))
      [] t[1] = "Neg"  -> ENeg(SubstFree(t[2], m))
      [] t[1] = "KVar" -> PKVar(t[2], [i \in DOMAIN t[3] |-> SubstFree(t[3][i], m)])
      [] OTHER         -> t

TStrgRef(loc)  == <<"StrgRef", loc>>
TWeakRef(ty)   == <<"WeakRef", ty>>
TShrRef(ty)    == <<"ShrRef", ty>>
TParam(i)      == <<"Param", i>>

BInt           == <<"Int">>
BUint          == <<"Uint">>
BBool          == <<"Bool">>
BAdt(did, ts)  == <<"Adt", did, ts>>

LocLocal(l)    == <<"Local", l>>
LocAbstract(n) == <<"Abstract", n>>

\* Subst::subst_loc: an abstract location replaced along the map lm
SubstLoc(loc, lm) == IF loc \in DOMAIN lm THEN lm[loc] ELSE loc

\* Subst::subst_ty
RECURSIVE SubstTy(_, _, _)
SubstTy(ty, m, lm) ==
    CASE ty[1] = "Refine"  -> TRefine(ty[2], SubstFree(ty[3], m))
      [] ty[1] = "Exists"  -> TExists(ty[2], SubstFree(ty[3], m))
      [] ty[1] = "StrgRef" -> TStrgRef(SubstLoc(ty[2], lm))
      [] ty[1] = "WeakRef" -> TWeakRef(SubstTy(ty[2], m, lm))
      [] ty[1] = "ShrRef"  -> TShrRef(SubstTy(ty[2], m, lm))
      [] OTHER             -> ty

\* GlobalEnv::sort: the sort of the index of a base type
SortOf(bty) == IF bty[1] = "Bool" THEN "bool" ELSE "int"

-----------------------------------------------------------------------------
(* PureCtxt and Cursor (pure_ctxt.rs): a tree of bindings, assumed          *)
(* predicates and obligations (heads).  A node is                           *)
(*    <<parent, kind, name, sort or provenance, pred>>                      *)
(* node 1 is the root; a cursor and a snapshot are node numbers.            *)

RootNode == <<None, "Root", 0, "", ETrue>>

\* PureCtxt::new
PureCtxtNew == [nodes |-> <<RootNode>>, names |-> 1, err |-> ""]

\* PureCtxt::cursor_at_root
CursorAtRoot == 1

Panic(pc, msg) == [pc EXCEPT !.err = IF pc.err = "" THEN msg ELSE pc.err]

\* Cursor::push_binding(sort, f): a fresh name bound below the cursor, guarded
\* by f(fresh); the cursor moves to the new node
PushBinding(pc, cur, sort, p) ==
    [pcx   |-> [pc EXCEPT !.nodes = Append(@, <<cur, "Binding", pc.names, sort,
                                                SubstBound(p, EVar(pc.names))>>),
                          !.names = @ + 1],
     cur   |-> Len(pc.nodes) + 1,
     fresh |-> pc.names]

\* Cursor::push_loc: a fresh abstract location
PushLoc(pc, cur) ==
    [pcx   |-> [pc EXCEPT !.nodes = Append(@, <<cur, "Binding", pc.names, "loc", ETrue>>),
                          !.names = @ + 1],
     cur   |-> Len(pc.nodes) + 1,
     fresh |-> LocAbstract(pc.names)]

\* Cursor::push_pred: an assumption; the cursor moves below it
PushPred(pc, cur, p) ==
    [pcx |-> [pc EXCEPT !.nodes = Append(@, <<cur, "Pred", 0, "", p>>)],
     cur |-> Len(pc.nodes) + 1]

\* Cursor::push_head: an obligation, a leaf below the cursor
PushHead(pc, cur, p, tag) ==
    [pc EXCEPT !.nodes = Append(@, <<cur, "Head", 0, tag, p>>)]

\* Cursor::clear: the children of the cursor's node are dropped
Clear(pc, cur) ==
    [pc EXCEPT !.nodes =
        [i \in DOMAIN @ |-> IF @[i][1] = cur THEN <<None>> \o Tail(@[i]) ELSE @[i]]]

\* the nodes from the root down to node n (empty when n is detached)
RECURSIVE PathTo(_, _)
PathTo(nodes, n) ==
    IF n = None THEN <<>>
    ELSE IF n = 1 THEN <<1>>
    ELSE IF PathTo(nodes, nodes[n][1]) = <<>> THEN <<>>
    ELSE Append(PathTo(nodes, nodes[n][1]), n)

\* PureCtxt::cursor_at: None when the snapshot's node was dropped
CursorAt(pc, snapshot) ==
    IF snapshot # None /\ PathTo(pc.nodes, snapshot) # <<>> THEN snapshot ELSE None

\* the binding nodes among the nodes of a path
BindingsOn(nodes, path) ==
    SelectSeq(path, LAMBDA i : nodes[i][2] = "Binding" /\ nodes[i][4] # "loc")

\* the (name, sort) pairs of a sequence of binding nodes
NamesOf(nodes, bs) == [i \in DOMAIN bs |-> <<nodes[bs[i]][3], nodes[bs[i]][4]>>]

\* Cursor::scope / Cursor::scope_at: the (name, sort) bindings down to a node
ScopeAt(pc, n) == NamesOf(pc.nodes, BindingsOn(pc.nodes, PathTo(pc.nodes, n)))

-----------------------------------------------------------------------------
(* Subtyping (liquid-rust-typeck/src/constraint_gen.rs) *)

\* GlobalEnv::variances_of: the declared variance of each generic position
\* of the nominal types of the model
VariancesOf(did) ==
    CASE did = 0 -> <<"Covariant">>
      [] did = 1 -> <<"Invariant">>
      [] did = 2 -> <<"Contravariant">>
      [] did = 3 -> <<"Bivariant">>
      [] OTHER   -> <<"Covariant", "Invariant">>

\* ConstraintGen::check_pred
CheckPred(pc, cur, p, tag) == PushHead(pc, cur, p, tag)

RECURSIVE Subtyping(_, _, _, _, _)
RECURSIVE BtySubtyping(_, _, _, _, _)
RECURSIVE PolymorphicSubtyping(_, _, _, _, _, _)
RECURSIVE SubtypingArgs(_, _, _, _, _, _, _)

\* ConstraintGen::polymorphic_subtyping
PolymorphicSubtyping(pc, cur, variance, ty1, ty2, tag) ==
    CASE variance = "Covariant"     -> Subtyping(pc, cur, ty1, ty2, tag)
      [] variance = "Invariant"     ->
            Subtyping(Subtyping(pc, cur, ty1, ty2, tag), cur, ty2, ty1, tag)
      [] variance = "Contravariant" -> Subtyping(pc, cur, ty2, ty1, tag)
      [] OTHER                      -> pc

\* the izip! loop of bty_subtyping over (variance, ty1, ty2), from position i
SubtypingArgs(pc, cur, variances, substs1, substs2, i, tag) ==
    IF i > Len(variances) \/ i > Len(substs1) \/ i > Len(substs2) THEN pc
    ELSE SubtypingArgs(
            PolymorphicSubtyping(pc, cur, variances[i], substs1[i], substs2[i], tag),
            cur, variances, substs1, substs2, i + 1, tag)

\* ConstraintGen::bty_subtyping
BtySubtyping(pc, cur, bty1, bty2, tag) ==
    CASE bty1[1] = "Int"  /\ bty2[1] = "Int"  -> pc
      [] bty1[1] = "Uint" /\ bty2[1] = "Uint" -> pc
      [] bty1[1] = "Bool" /\ bty2[1] = "Bool" -> pc
      [] bty1[1] = "Adt"  /\ bty2[1] = "Adt"  ->
            IF bty1[2] # bty2[2] \/ Len(bty1[3]) # Len(bty2[3])
            THEN Panic(pc, "debug_assert_eq")
            ELSE SubtypingArgs(pc, cur, VariancesOf(bty1[2]), bty1[3], bty2[3], 1, tag)
      [] OTHER -> Panic(pc, "unexpected base types")

\* the Exists arm of subtyping once the left type is unpacked into binding b
SubtypingUnpacked(b, bty, ty2, tag) ==
    Subtyping(b.pcx, b.cur, TRefine(bty, EVar(b.fresh)), ty2, tag)

\* ConstraintGen::subtyping; every push happens on a breadcrumb, so the
\* caller's cursor stays where it is
Subtyping(pc, cur, ty1, ty2, tag) ==
    IF ty1[1] = "Refine" /\ ty2[1] = "Refine" /\ ty1[3] = ty2[3]
    THEN BtySubtyping(pc, cur, ty1[2], ty2[2], tag)
    ELSE IF ty1[1] = "Exists" /\ ty2[1] = "Exists" /\ ty1[3] = ty2[3]
    THEN BtySubtyping(pc, cur, ty1[2], ty2[2], tag)
    ELSE IF ty1[1] = "Exists"
    THEN SubtypingUnpacked(PushBinding(pc, cur, SortOf(ty1[2]), ty1[3]), ty1[2], ty2, tag)
    ELSE
    CASE ty1[1] = "Refine" /\ ty2[1] = "Refine" ->
            CheckPred(BtySubtyping(pc, cur, ty1[2], ty2[2], tag), cur,
                      EBin("Eq", ty1[3], ty2[3]), tag)
      [] ty1[1] = "Refine" /\ ty2[1] = "Exists" ->
            CheckPred(BtySubtyping(pc, cur, ty1[2], ty2[2], tag), cur,
                      SubstBound(ty2[3], ty1[3]), tag)
      [] ty1[1] = "StrgRef" /\ ty2[1] = "StrgRef" ->
            IF ty1[2] = ty2[2] THEN pc ELSE Panic(pc, "assert_eq")
      [] ty1[1] = "WeakRef" /\ ty2[1] = "WeakRef" ->
            Subtyping(Subtyping(pc, cur, ty1[2], ty2[2], tag), cur, ty2[2], ty1[2], tag)
      [] ty1[1] = "ShrRef" /\ ty2[1] = "ShrRef" ->
            Subtyping(pc, cur, ty1[2], ty2[2], tag)
      [] ty2[1] = "Uninit" -> pc
      [] ty1[1] = "Param" /\ ty2[1] = "Param" ->
            IF ty1[2] = ty2[2] THEN pc ELSE Panic(pc, "debug_assert_eq")
      [] OTHER -> Panic(pc, "todo")

-----------------------------------------------------------------------------
(* TypeEnv (type_env.rs): a map from locations to types *)

\* TypeEnv::new
TypeEnvNew == <<>>

\* TypeEnv::insert_loc
InsertLoc(env, loc, ty) ==
    [l \in DOMAIN env \cup {loc} |-> IF l = loc THEN ty ELSE env[l]]

\* TypeEnv::lookup_loc
LookupLoc(env, loc) == env[loc]

\* TypeEnv::lookup_local
LookupLocal(env, local) == env[LocLocal(local)]

\* the locations of an environment in a fixed order: locals, then abstract
RECURSIVE LocSeqOf(_)
LocSeqOf(S) ==
    IF S = {} THEN <<>>
    ELSE LET x == CHOOSE y \in S : \A z \in S :
                     \/ y[1] = "Local" /\ z[1] = "Abstract"
                     \/ y[1] = z[1] /\ y[2] <= z[2]
         IN  <<x>> \o LocSeqOf(S \ {x})

\* the result of unpack once the existential is bound by b
Unpacked(b, bty) == [pcx |-> b.pcx, cur |-> b.cur, ty |-> TRefine(bty, EVar(b.fresh))]

\* TypeEnv::unpack: an existential opened into a fresh binding of the cursor
Unpack(pc, cur, ty) ==
    IF ty[1] = "Exists"
    THEN Unpacked(PushBinding(pc, cur, SortOf(ty[2]), ty[3]), ty[2])
    ELSE [pcx |-> pc, cur |-> cur, ty |-> ty]

RECURSIVE UnpackAllFrom(_, _, _, _)

\* one step of unpack_all: location Head(locs) takes its unpacked type u
UnpackAllStep(u, env, locs) ==
    UnpackAllFrom(u.pcx, u.cur, [env EXCEPT ![Head(locs)] = u.ty], Tail(locs))

\* TypeEnv::unpack_all: every location unpacked, in location order
UnpackAllFrom(pc, cur, env, locs) ==
    IF locs = <<>> THEN [pcx |-> pc, cur |-> cur, env |-> env]
    ELSE UnpackAllStep(Unpack(pc, cur, env[Head(locs)]), env, locs)

UnpackAll(pc, cur, env) == UnpackAllFrom(pc, cur, env, LocSeqOf(DOMAIN env))

\* a place is <<local, number of derefs>>; the location and type a place
\* denotes, following strong references
RECURSIVE WalkPlace(_, _, _)
WalkPlace(env, loc, derefs) ==
    IF derefs = 0 THEN [loc |-> loc, ty |-> env[loc], strong |-> TRUE]
    ELSE CASE env[loc][1] = "StrgRef" -> WalkPlace(env, env[loc][2], derefs - 1)
           [] env[loc][1] \in {"WeakRef", "ShrRef"} ->
                 [loc |-> loc, ty |-> env[loc][2], strong |-> FALSE]
           [] OTHER -> [loc |-> loc, ty |-> TUninit, strong |-> FALSE]

PlaceOf(env, place) == WalkPlace(env, LocLocal(place[1]), place[2])

\* TypeEnv::lookup_place
LookupPlace(env, place) == PlaceOf(env, place).ty

\* TypeEnv::move_place: the type is returned and the location left uninitialized
MovePlaceAt(env, w) ==
    [env |-> IF w.strong THEN [env EXCEPT ![w.loc] = TUninit] ELSE env, ty |-> w.ty]

MovePlace(env, place) == MovePlaceAt(env, PlaceOf(env, place))

\* TypeEnv::write_place: a strong update of the location the place denotes;
\* behind a weak reference the new type must be a subtype of the referent
WritePlaceAt(pc, cur, env, w, ty) ==
    IF w.strong
    THEN [pcx |-> pc, env |-> [env EXCEPT ![w.loc] = ty]]
    ELSE [pcx |-> Subtyping(pc, cur, ty, w.ty, "Assign"), env |-> env]

WritePlace(pc, cur, env, place, ty) == WritePlaceAt(pc, cur, env, PlaceOf(env, place), ty)

\* TypeEnv::borrow: a strong reference to the location of the place
Borrow(env, place) == TStrgRef(PlaceOf(env, place).loc)

-----------------------------------------------------------------------------
(* Join, shapes and basic-block environments (type_env.rs) *)

\* the join of two types: equal types stay; types of one base type that
\* disagree on the index are weakened to an existential with a hole;
\* anything else is no longer initialized
JoinTy(ty1, ty2) ==
    IF ty1 = ty2 THEN ty1
    ELSE IF ty1[1] \in {"Refine", "Exists"} /\ ty2[1] \in {"Refine", "Exists"}
            /\ ty1[2] = ty2[2]
    THEN TExists(ty1[2], PHole)
    ELSE TUninit

\* the location-wise join; a location one side lacks is dropped
JoinEnv(env1, env2) ==
    [l \in DOMAIN env1 \cap DOMAIN env2 |-> JoinTy(env1[l], env2[l])]

\* the pair TypeEnv::join leaves: the joined environment and whether it
\* differs from the environment joined into
JoinResult(env, joined) == [env |-> joined, changed |-> joined # env]

\* a join that abstracts every refinement, those the two sides agree on too
JoinWidening(env, other) ==
    JoinResult(env, [l \in DOMAIN env \cap DOMAIN other |->
                        IF env[l][1] = "Refine" THEN TExists(env[l][2], PHole)
                        ELSE JoinTy(env[l], other[l])])

\* TypeEnv::join(other)
Join(env, other) == JoinResult(env, JoinEnv(env, other))

\* TypeEnv::into_shape: the environment of the inference pass as a shape
IntoShape(env) == env

\* the free variables of a scope as arguments of a kvar
VarsOf(scope) == [i \in DOMAIN scope |-> EVar(scope[i][1])]

\* the parameters of a basic-block environment as (name, sort) pairs
ParamsScope(params) == [i \in DOMAIN params |-> <<params[i][1], params[i][2]>>]

\* KVarStore::fresh(var, sort, scope): kvar number kv applied to the variable
\* it constrains and to the variables in scope
FreshKVar(kv, var, scope) == PKVar(kv, <<var>> \o VarsOf(scope))

\* TypeEnvShape::into_bb_env: in location order, a location generalized by the
\* inference pass is given a fresh parameter guarded by a fresh kvar over the
\* scope and the earlier parameters; an uninitialized location stays so; any
\* other location keeps the type of the arriving environment.  acc = [names, kvars, params, env]
RECURSIVE IntoBbEnvFrom(_, _, _, _, _)
IntoBbEnvFrom(acc, shape, env, scope, locs) ==
    IF locs = <<>> THEN acc
    ELSE IF shape[Head(locs)][1] = "Exists" /\ shape[Head(locs)][3] = PHole
    THEN IntoBbEnvFrom(
            [names  |-> acc.names + 1,
             kvars  |-> acc.kvars + 1,
             params |-> Append(acc.params,
                          <<acc.names, SortOf(shape[Head(locs)][2]),
                            FreshKVar(acc.kvars + 1, EVar(acc.names),
                                      scope \o ParamsScope(acc.params))>>),
             env    |-> InsertLoc(acc.env, Head(locs),
                                  TRefine(shape[Head(locs)][2], EVar(acc.names)))],
            shape, env, scope, Tail(locs))
    ELSE IntoBbEnvFrom(
            [acc EXCEPT !.env = InsertLoc(@, Head(locs),
                                    IF Head(locs) \in DOMAIN env
                                       /\ shape[Head(locs)][1] # "Uninit"
                                    THEN env[Head(locs)] ELSE shape[Head(locs)])],
            shape, env, scope, Tail(locs))

IntoBbEnv(names, kv, shape, env, scope) ==
    IntoBbEnvFrom([names |-> names, kvars |-> kv, params |-> <<>>, env |-> TypeEnvNew],
                  shape, env, scope, LocSeqOf(DOMAIN shape))

\* the map from the parameters of a basic-block environment to fresh names
\* starting at first
RenameParams(params, first) ==
    [n \in {params[i][1] : i \in DOMAIN params} |->
        EVar(first + (CHOOSE i \in DOMAIN params : params[i][1] = n) - 1)]

\* the bindings BasicBlockEnv::enter pushes, from parameter i on; m renames
\* the parameters
RECURSIVE EnterFrom(_, _, _, _, _)
EnterFrom(pc, cur, params, m, i) ==
    IF i > Len(params) THEN [pcx |-> pc, cur |-> cur]
    ELSE EnterFrom(
            [pc EXCEPT !.nodes = Append(@, <<cur, "Binding", pc.names, params[i][2],
                                             SubstFree(params[i][3], m)>>),
                       !.names = @ + 1],
            Len(pc.nodes) + 1, params, m, i + 1)

\* the environment enter returns below the bindings r pushed
Entered(r, bb_env, m) ==
    [pcx |-> r.pcx, cur |-> r.cur,
     env |-> [l \in DOMAIN bb_env.env |-> SubstTy(bb_env.env[l], m, <<>>)]]

\* BasicBlockEnv::enter(cursor): every parameter bound to a fresh name under
\* its guard; the environment over the fresh names
EnterWith(pc, cur, bb_env, m) == Entered(EnterFrom(pc, cur, bb_env.params, m, 1), bb_env, m)

Enter(pc, cur, bb_env) == EnterWith(pc, cur, bb_env, RenameParams(bb_env.params, pc.names))

\* the locations of env whose type in the basic-block environment is indexed
\* by parameter n and whose type in env is indexed too
LocsOfParam(env, bb_env, n) ==
    {l \in DOMAIN env \cap DOMAIN bb_env.env :
        /\ bb_env.env[l][1] = "Refine" /\ bb_env.env[l][3] = EVar(n)
        /\ env[l][1] = "Refine"}

\* Subst::infer_from_bb_env: each parameter is mapped to the index the
\* arriving environment holds where the basic-block environment holds the
\* parameter; a parameter no location determines fails the inference
InferFromBbEnv(env, bb_env) ==
    [ok |-> \A i \in DOMAIN bb_env.params :
                LocsOfParam(env, bb_env, bb_env.params[i][1]) # {},
     m  |-> [n \in {bb_env.params[i][1] : i \in DOMAIN bb_env.params} |->
               IF LocsOfParam(env, bb_env, n) = {} THEN EVar(n)
               ELSE env[CHOOSE l \in LocsOfParam(env, bb_env, n) : TRUE][3]]]

\* BasicBlockEnv::subst
SubstBbEnv(bb_env, m) == [l \in DOMAIN bb_env.env |-> SubstTy(bb_env.env[l], m, <<>>)]

\* TypeEnv::transform_into: location by location, the type held must be a
\* subtype of the type the target environment holds
RECURSIVE TransformIntoFrom(_, _, _, _, _)
TransformIntoFrom(pc, cur, env, target, locs) ==
    IF locs = <<>> THEN pc
    ELSE IF Head(locs) \notin DOMAIN env THEN Panic(pc, "missing location")
    ELSE TransformIntoFrom(
            Subtyping(pc, cur, env[Head(locs)], target[Head(locs)], "Goto"),
            cur, env, target, Tail(locs))

TransformInto(pc, cur, env, target) ==
    TransformIntoFrom(pc, cur, env, target, LocSeqOf(DOMAIN target))

-----------------------------------------------------------------------------
(* The intermediate representation (ir.rs): bodies, blocks, terminators *)

RETURN_PLACE == 0
START_BLOCK  == 0

\* a place is <<local, number of derefs>>
Place(l) == <<l, 0>>
Deref(l) == <<l, 1>>

OpCopy(p) == <<"Copy", p>>
OpMove(p) == <<"Move", p>>
OpInt(n)  == <<"Int", n>>
OpBool(b) == <<"Bool", b>>

RvUse(op)          == <<"Use", op>>
RvBin(bop, o1, o2) == <<"BinaryOp", bop, o1, o2>>
RvUn(uop, o)       == <<"UnaryOp", uop, o>>
RvMutRef(p)        == <<"MutRef", p>>

StAssign(p, rv) == <<"Assign", p, rv>>
StNop           == <<"Nop">>

TmReturn            == <<"Return">>
TmGoto(t)           == <<"Goto", t>>
TmSwitch(d, ts, o)  == <<"SwitchInt", d, ts, o>>
TmAssert(c, exp, t) == <<"Assert", c, exp, t>>
TmDrop(p, t)        == <<"Drop", p, t>>
TmCall(f, args, d)  == <<"Call", f, args, d>>

\* Terminator::successors, in order and with multiplicity
Successors(tm) ==
    CASE tm[1] = "Goto"      -> <<tm[2]>>
      [] tm[1] = "SwitchInt" -> [i \in DOMAIN tm[3] |-> tm[3][i][2]] \o <<tm[4]>>
      [] tm[1] = "Assert"    -> <<tm[4]>>
      [] tm[1] = "Drop"      -> <<tm[3]>>
      [] tm[1] = "Call"      -> IF tm[4] = <<>> THEN <<>> ELSE <<tm[4][2]>>
      [] OTHER               -> <<>>

\* the blocks of a body are numbered from START_BLOCK
BlocksOf(body) == 0 .. (Len(body) - 1)

BlockData(body, bb) == body[bb + 1]

\* the length of mir.predecessors()[bb]: one entry per edge into bb
NumPreds(body, bb) ==
    Cardinality({<<b, i>> \in UNION {{<<b, i>> : i \in DOMAIN Successors(BlockData(body, b).terminator)}
                                        : b \in BlocksOf(body)} :
                    Successors(BlockData(body, b).terminator)[i] = bb})

\* Body::is_join_point
IsJoinPoint(body, bb) == NumPreds(body, bb) > 1

NoBlock == -1

\* the blocks reachable from the blocks of S without entering block avoid
RECURSIVE ReachAvoiding(_, _, _)
ReachAvoiding(body, S, avoid) ==
    IF S \cup {t \in BlocksOf(body) \ {avoid} :
                 \E b \in S : t \in Range(Successors(BlockData(body, b).terminator))} = S
    THEN S
    ELSE ReachAvoiding(body,
            S \cup {t \in BlocksOf(body) \ {avoid} :
                      \E b \in S : t \in Range(Successors(BlockData(body, b).terminator))},
            avoid)

Reachable(body) == ReachAvoiding(body, {START_BLOCK}, NoBlock)

\* d dominates bb: every path from the entry to bb goes through d
Dominates(body, d, bb) ==
    \/ d = bb
    \/ d = START_BLOCK
    \/ bb \notin ReachAvoiding(body, {START_BLOCK}, d)

\* Dominators::immediate_dominator: the strict dominator every other strict
\* dominator dominates
ImmediateDominator(body, bb) ==
    CHOOSE d \in BlocksOf(body) :
        /\ d # bb /\ Dominates(body, d, bb)
        /\ \A e \in BlocksOf(body) :
              (e # bb /\ Dominates(body, e, bb)) => Dominates(body, e, d)

-----------------------------------------------------------------------------
(* The handlers of the checker (liquid-rust-typeck/src/checker.rs) *)

\* Checker::check_constant
CheckConstant(c) ==
    IF c[1] = "Int" THEN TRefine(BInt, EConst(c[2])) ELSE TRefine(BBool, EConst(c[2]))

\* an operand check that reads a moved place without moving it out
CheckOperandNoMove(env, operand) ==
    IF operand[1] \in {"Copy", "Move"}
    THEN [env |-> env, ty |-> LookupPlace(env, operand[2])]
    ELSE [env |-> env, ty |-> CheckConstant(operand)]

\* Checker::check_operand: the type of the operand and the environment it leaves
CheckOperand(env, operand) ==
    CASE operand[1] = "Copy" -> [env |-> env, ty |-> LookupPlace(env, operand[2])]
      [] operand[1] = "Move" -> MovePlace(env, operand[2])
      [] OTHER               -> [env |-> env, ty |-> CheckConstant(operand)]

\* Checker::check_arith_op: a division obliges the divisor to differ from zero
CheckArithOpAdd(pc, cur, op, ty1, ty2) ==
    IF ty1[1] = "Refine" /\ ty2[1] = "Refine" /\ ty1[2] = ty2[2]
       /\ ty1[2][1] \in {"Int", "Uint"}
    THEN [pcx |-> IF op = "Div"
                  THEN PushHead(pc, cur, EBin("Ne", ty2[3], EConst(0)), "Div")
                  ELSE pc,
          ty  |-> TRefine(ty1[2], EBin("Add", ty1[3], ty2[3]))]
    ELSE [pcx |-> Panic(pc, "unreachable"), ty |-> TUninit]

\* a check_arith_op without the obligation of a division
CheckArithOpNoDiv(pc, cur, op, ty1, ty2) ==
    IF ty1[1] = "Refine" /\ ty2[1] = "Refine" /\ ty1[2] = ty2[2]
       /\ ty1[2][1] \in {"Int", "Uint"}
    THEN [pcx |-> pc, ty |-> TRefine(ty1[2], EBin(op, ty1[3], ty2[3]))]
    ELSE [pcx |-> Panic(pc, "unreachable"), ty |-> TUninit]

CheckArithOp(pc, cur, op, ty1, ty2) ==
    IF ty1[1] = "Refine" /\ ty2[1] = "Refine" /\ ty1[2] = ty2[2]
       /\ ty1[2][1] \in {"Int", "Uint"}
    THEN [pcx |-> IF op = "Div"
                  THEN PushHead(pc, cur, EBin("Ne", ty2[3], EConst(0)), "Div")
                  ELSE pc,
          ty  |-> TRefine(ty1[2], EBin(op, ty1[3], ty2[3]))]
    ELSE [pcx |-> Panic(pc, "unreachable"), ty |-> TUninit]

\* Checker::check_cmp_op
CheckCmpOp(pc, op, ty1, ty2) ==
    IF ty1[1] = "Refine" /\ ty2[1] = "Refine" /\ ty1[2] = ty2[2]
       /\ ty1[2][1] \in {"Int", "Uint"}
    THEN [pcx |-> pc, ty |-> TRefine(BBool, EBin(op, ty1[3], ty2[3]))]
    ELSE [pcx |-> Panic(pc, "unreachable"), ty |-> TUninit]

\* Checker::check_eq
CheckEq(pc, op, ty1, ty2) ==
    IF ty1[1] = "Refine" /\ ty2[1] = "Refine"
    THEN [pcx |-> IF ty1[2] = ty2[2] THEN pc ELSE Panic(pc, "debug_assert_eq"),
          ty  |-> TRefine(BBool, EBin(op, ty1[3], ty2[3]))]
    ELSE [pcx |-> Panic(pc, "unreachable"), ty |-> TUninit]

\* the match of check_binary_op on the operator, the operands being typed
BinaryOpOn(pc, cur, bin_op, ty1, ty2) ==
    CASE bin_op \in {"Eq", "Ne"}                -> CheckEq(pc, bin_op, ty1, ty2)
      [] bin_op \in {"Add", "Sub", "Mul", "Div"} -> CheckArithOp(pc, cur, bin_op, ty1, ty2)
      [] OTHER                                    -> CheckCmpOp(pc, bin_op, ty1, ty2)

WithEnv(r, env) == [pcx |-> r.pcx, env |-> env, ty |-> r.ty]

BinaryOpSecond(pc, cur, bin_op, ty1, r2) ==
    WithEnv(BinaryOpOn(pc, cur, bin_op, ty1, r2.ty), r2.env)

BinaryOpFirst(pc, cur, bin_op, r1, op2) ==
    BinaryOpSecond(pc, cur, bin_op, r1.ty, CheckOperand(r1.env, op2))

\* Checker::check_binary_op
CheckBinaryOp(pc, cur, env, bin_op, op1, op2) ==
    BinaryOpFirst(pc, cur, bin_op, CheckOperand(env, op1), op2)

UnaryOpOn(pc, un_op, r) ==
    IF un_op = "Not" /\ r.ty[1] = "Refine" /\ r.ty[2] = BBool
    THEN [pcx |-> pc, env |-> r.env, ty |-> TRefine(BBool, ENot(r.ty[3]))]
    ELSE IF un_op = "Neg" /\ r.ty[1] = "Refine" /\ r.ty[2] = BInt
    THEN [pcx |-> pc, env |-> r.env, ty |-> TRefine(BInt, ENeg(r.ty[3]))]
    ELSE [pcx |-> Panic(pc, "unreachable"), env |-> r.env, ty |-> TUninit]

\* Checker::check_unary_op
CheckUnaryOp(pc, env, un_op, op) == UnaryOpOn(pc, un_op, CheckOperand(env, op))

WithPcx(r, pc) == [pcx |-> pc, env |-> r.env, ty |-> r.ty]

\* Checker::check_rvalue
CheckRvalue(pc, cur, env, rvalue) ==
    CASE rvalue[1] = "Use"      -> WithPcx(CheckOperand(env, rvalue[2]), pc)
      [] rvalue[1] = "BinaryOp" -> CheckBinaryOp(pc, cur, env, rvalue[2], rvalue[3], rvalue[4])
      [] rvalue[1] = "MutRef"   -> [pcx |-> pc, env |-> env, ty |-> Borrow(env, rvalue[2])]
      [] OTHER                  -> CheckUnaryOp(pc, env, rvalue[2], rvalue[3])

WithCur(w, cur) == [pcx |-> w.pcx, cur |-> cur, env |-> w.env]

\* an assignment that writes the local of the place, whatever its projection
AssignWriteRoot(place, env, u) ==
    WithCur(WritePlace(u.pcx, u.cur, env, <<place[1], 0>>, u.ty), u.cur)

AssignWrite(place, env, u) ==
    WithCur(WritePlace(u.pcx, u.cur, env, place, u.ty), u.cur)

AssignUnpack(cur, place, r) == AssignWrite(place, r.env, Unpack(r.pcx, cur, r.ty))

\* Checker::check_statement
CheckStatement(pc, cur, env, stmt) ==
    IF stmt[1] = "Assign"
    THEN AssignUnpack(cur, stmt[2], CheckRvalue(pc, cur, env, stmt[3]))
    ELSE [pcx |-> pc, cur |-> cur, env |-> env]

\* the loop of check_basic_block over the statements
RECURSIVE CheckStatements(_, _)
CheckStatements(r, stmts) ==
    IF stmts = <<>> THEN r
    ELSE CheckStatements(CheckStatement(r.pcx, r.cur, r.env, Head(stmts)), Tail(stmts))


\* a pending call check_goto(env, cursor, target)
Frame(env, cur, target) == [env |-> env, cur |-> cur, target |-> target]

\* the closure mk of check_switch_int: the condition under which the
\* discriminant takes the branch of value bits
SwitchCond(discr_ty, bits) ==
    IF discr_ty[2] = BBool
    THEN IF bits # 0 THEN discr_ty[3] ELSE ENot(discr_ty[3])
    ELSE EBin("Eq", discr_ty[3], EConst(bits))

\* the condition of the otherwise branch: the conjunction of the negations
\* of the conditions of targets[1..i], associated to the left
RECURSIVE OtherwiseCond(_, _, _)
OtherwiseCond(discr_ty, targets, i) ==
    IF i = 1 THEN ENot(SwitchCond(discr_ty, targets[1][1]))
    ELSE EBin("And", OtherwiseCond(discr_ty, targets, i - 1),
                     ENot(SwitchCond(discr_ty, targets[i][1])))

\* assumptions whose otherwise branch negates the last condition only
SwitchPredsLastOnly(cur, discr_ty, targets) ==
    [i \in DOMAIN targets |-> <<cur, "Pred", 0, "", SwitchCond(discr_ty, targets[i][1])>>]
    \o (IF targets = <<>> THEN <<>>
        ELSE <<<<cur, "Pred", 0, "",
                 ENot(SwitchCond(discr_ty, targets[Len(targets)][1]))>>>>)

\* the assumptions check_switch_int pushes below the cursor: one per branch,
\* each on a breadcrumb, then the one of the otherwise branch
SwitchPreds(cur, discr_ty, targets) ==
    [i \in DOMAIN targets |-> <<cur, "Pred", 0, "", SwitchCond(discr_ty, targets[i][1])>>]
    \o (IF targets = <<>> THEN <<>>
        ELSE <<<<cur, "Pred", 0, "", OtherwiseCond(discr_ty, targets, Len(targets))>>>>)

\* a check_switch_int that never goes to the otherwise branch
SwitchFramesNoOtherwise(first, cur, env, targets, otherwise) ==
    [i \in DOMAIN targets |-> Frame(env, first + i, targets[i][2])]

\* the calls of check_goto check_switch_int makes, in order; the nodes of
\* SwitchPreds follow the first nodes of the context
SwitchFrames(first, cur, env, targets, otherwise) ==
    [i \in DOMAIN targets |-> Frame(env, first + i, targets[i][2])]
    \o <<Frame(env, IF targets = <<>> THEN cur ELSE first + Len(targets) + 1, otherwise)>>

\* a check_switch_int that pushes the condition of each branch on the cursor
\* the branch before left, without a breadcrumb
SwitchOnChained(pc, cur, r, targets, otherwise) ==
    IF r.ty[1] = "Refine" /\ r.ty[2][1] \in {"Bool", "Int", "Uint"}
    THEN [pcx    |-> [pc EXCEPT !.nodes = @ \o
                        [i \in 1 .. Len(SwitchPreds(cur, r.ty, targets)) |->
                            <<IF i = 1 THEN cur ELSE Len(pc.nodes) + i - 1>>
                            \o Tail(SwitchPreds(cur, r.ty, targets)[i])]],
          frames |-> SwitchFrames(Len(pc.nodes), cur, r.env, targets, otherwise)]
    ELSE [pcx |-> Panic(pc, "unreachable"), frames |-> <<>>]

SwitchOn(pc, cur, r, targets, otherwise) ==
    IF r.ty[1] = "Refine" /\ r.ty[2][1] \in {"Bool", "Int", "Uint"}
    THEN [pcx    |-> [pc EXCEPT !.nodes = @ \o SwitchPreds(cur, r.ty, targets)],
          frames |-> SwitchFrames(Len(pc.nodes), cur, r.env, targets, otherwise)]
    ELSE [pcx |-> Panic(pc, "unreachable"), frames |-> <<>>]

\* Checker::check_switch_int
CheckSwitchInt(pc, cur, env, discr, targets, otherwise) ==
    SwitchOn(pc, cur, CheckOperand(env, discr), targets, otherwise)

AssertPushed(r, p, target) ==
    [pcx |-> p.pcx, frames |-> <<Frame(r.env, p.cur, target)>>]

AssertOn(pc, cur, r, expected, target) ==
    IF r.ty[1] = "Refine" /\ r.ty[2] = BBool
    THEN AssertPushed(r, PushPred(pc, cur, IF expected THEN r.ty[3] ELSE ENot(r.ty[3])),
                      target)
    ELSE [pcx |-> Panic(pc, "unreachable"), frames |-> <<>>]

\* a check_assert that also obliges the condition (the push_head left in a
\* comment in the source)
CheckAssertObliged(pc, cur, env, cond, expected, target) ==
    IF CheckOperand(env, cond).ty[1] = "Refine" /\ CheckOperand(env, cond).ty[2] = BBool
    THEN [pcx |-> PushPred(PushHead(pc, cur,
                                    IF expected THEN CheckOperand(env, cond).ty[3]
                                    ELSE ENot(CheckOperand(env, cond).ty[3]), "Assert"),
                           cur,
                           IF expected THEN CheckOperand(env, cond).ty[3]
                           ELSE ENot(CheckOperand(env, cond).ty[3])).pcx,
          frames |-> <<Frame(CheckOperand(env, cond).env, Len(pc.nodes) + 2, target)>>]
    ELSE [pcx |-> Panic(pc, "unreachable"), frames |-> <<>>]

\* Checker::check_assert: the condition is assumed, never obliged
CheckAssert(pc, cur, env, cond, expected, target) ==
    AssertOn(pc, cur, CheckOperand(env, cond), expected, target)

\* the loop of the Return arm over the ensures clauses, from clause i
RECURSIVE CheckEnsures(_, _, _, _, _)
CheckEnsures(pc, cur, env, ensures, i) ==
    IF i > Len(ensures) THEN pc
    ELSE IF LocAbstract(ensures[i][1]) \notin DOMAIN env THEN Panic(pc, "unwrap")
    ELSE CheckEnsures(
            Subtyping(pc, cur, LookupLoc(env, LocAbstract(ensures[i][1])),
                      ensures[i][2], "Ensures"),
            cur, env, ensures, i + 1)

\* a Return arm that checks the return place and skips the ensures clauses
CheckReturnRetOnly(pc, cur, env, sig) ==
    [pcx    |-> Subtyping(pc, cur, LookupLocal(env, RETURN_PLACE), sig.ret, "Ret"),
     frames |-> <<>>]

\* the Return arm of check_terminator: no call of check_goto is made
CheckReturn(pc, cur, env, sig) ==
    [pcx    |-> CheckEnsures(
                    Subtyping(pc, cur, LookupLocal(env, RETURN_PLACE), sig.ret, "Ret"),
                    cur, env, sig.ensures, 1),
     frames |-> <<>>]

\* GlobalEnv::lookup_fn_sig, lowered: the signatures of the procedures called
\*   "pos":   fn(x: int{v: v > 0}) -> int{v: v > 0}
\*   "ghost": fn<n>(x: int) -> int[n], no argument determines n
\*   "strg":  fn(r: &strg<l: int[@n]>) ensures l: int{v: v > n}
\*   "fresh": fn(x: int) -> int ensures l: int{v: v > x}, l a new location
LookupFnSig(func) ==
    CASE func = "pos" ->
            [params   |-> <<<<11, "int", EBin("Gt", EVar(11), EConst(0))>>>>,
             requires |-> <<>>,
             args     |-> <<TRefine(BInt, EVar(11))>>,
             ret      |-> TExists(BInt, EBin("Gt", EBound, EConst(0))),
             ensures  |-> <<>>]
      [] func = "ghost" ->
            [params   |-> <<<<11, "int", ETrue>>, <<12, "int", ETrue>>>>,
             requires |-> <<>>,
             args     |-> <<TRefine(BInt, EVar(11))>>,
             ret      |-> TRefine(BInt, EVar(12)),
             ensures  |-> <<>>]
      [] func = "assert" ->
            [params   |-> <<>>,
             requires |-> <<>>,
             args     |-> <<TRefine(BBool, ETrue)>>,
             ret      |-> TExists(BInt, ETrue),
             ensures  |-> <<>>]
      [] func = "strg" ->
            [params   |-> <<<<11, "int", ETrue>>>>,
             requires |-> <<<<12, TRefine(BInt, EVar(11))>>>>,
             args     |-> <<TStrgRef(LocAbstract(12))>>,
             ret      |-> TExists(BInt, ETrue),
             ensures  |-> <<<<12, TExists(BInt, EBin("Gt", EBound, EVar(11)))>>>>]
      [] OTHER ->
            [params   |-> <<<<11, "int", ETrue>>>>,
             requires |-> <<>>,
             args     |-> <<TRefine(BInt, EVar(11))>>,
             ret      |-> TExists(BInt, ETrue),
             ensures  |-> <<<<12, TExists(BInt, EBin("Gt", EBound, EVar(11)))>>>>]

\* the map of check_call over the arguments: the types of the operands and
\* the environment the moves leave; r = [env, tys]
RECURSIVE CheckOperands(_, _)
CheckOperands(r, args) ==
    IF args = <<>> THEN r
    ELSE CheckOperands([env |-> CheckOperand(r.env, Head(args)).env,
                        tys |-> Append(r.tys, CheckOperand(r.env, Head(args)).ty)],
                       Tail(args))

\* the locations a call passes by strong reference: the abstract location of
\* the formal is mapped to the location of the actual
CallLocs(actuals, fn_sig) ==
    [l \in {fn_sig.args[i][2] : i \in {j \in DOMAIN fn_sig.args \cap DOMAIN actuals :
                                        /\ fn_sig.args[j][1] = "StrgRef"
                                        /\ actuals[j][1] = "StrgRef"}} |->
        actuals[CHOOSE i \in DOMAIN fn_sig.args \cap DOMAIN actuals :
                    /\ fn_sig.args[i] = TStrgRef(l) /\ actuals[i][1] = "StrgRef"][2]]

\* the indices a call gives for parameter n: the index of an actual whose
\* formal is indexed by n, and the index the environment holds at a
\* location the callee requires to be indexed by n
CallIndices(env, actuals, fn_sig, lm, n) ==
    {actuals[i][3] : i \in {j \in DOMAIN fn_sig.args \cap DOMAIN actuals :
                               /\ fn_sig.args[j][1] = "Refine" /\ fn_sig.args[j][3] = EVar(n)
                               /\ actuals[j][1] = "Refine"}}
    \cup {env[lm[LocAbstract(fn_sig.requires[i][1])]][3] :
             i \in {j \in DOMAIN fn_sig.requires :
                       /\ fn_sig.requires[j][2][1] = "Refine"
                       /\ fn_sig.requires[j][2][3] = EVar(n)
                       /\ LocAbstract(fn_sig.requires[j][1]) \in DOMAIN lm
                       /\ lm[LocAbstract(fn_sig.requires[j][1])] \in DOMAIN env
                       /\ env[lm[LocAbstract(fn_sig.requires[j][1])]][1] = "Refine"}}

\* Subst::infer_from_fn_call once the locations are mapped: a parameter no
\* actual and no required location determines fails the inference
InferParams(env, actuals, fn_sig, lm) ==
    [ok |-> \A i \in DOMAIN fn_sig.params :
                CallIndices(env, actuals, fn_sig, lm, fn_sig.params[i][1]) # {},
     lm |-> lm,
     m  |-> [n \in {fn_sig.params[i][1] : i \in DOMAIN fn_sig.params} |->
               IF CallIndices(env, actuals, fn_sig, lm, n) = {} THEN EVar(n)
               ELSE CHOOSE e \in CallIndices(env, actuals, fn_sig, lm, n) : TRUE]]

\* Subst::infer_from_fn_call
InferFromFnCall(env, actuals, fn_sig) ==
    InferParams(env, actuals, fn_sig, CallLocs(actuals, fn_sig))

\* the loop of check_call over fn_sig.params: the guard of each parameter,
\* instantiated, is an obligation of the call
RECURSIVE CallParamHeads(_, _, _, _, _)
CallParamHeads(pc, cur, params, m, i) ==
    IF i > Len(params) THEN pc
    ELSE CallParamHeads(PushHead(pc, cur, SubstFree(params[i][3], m), "Call"),
                        cur, params, m, i + 1)

\* the loop of check_call over the pairs of an actual and a formal
RECURSIVE CallArgs(_, _, _, _, _, _)
CallArgs(pc, cur, actuals, formals, sub, i) ==
    IF i > Len(actuals) \/ i > Len(formals) THEN pc
    ELSE CallArgs(Subtyping(pc, cur, actuals[i], SubstTy(formals[i], sub.m, sub.lm), "Call"),
                  cur, actuals, formals, sub, i + 1)

\* the loop of check_call over fn_sig.requires
RECURSIVE CallRequires(_, _, _, _, _, _)
CallRequires(pc, cur, env, requires, sub, i) ==
    IF i > Len(requires) THEN pc
    ELSE IF SubstLoc(LocAbstract(requires[i][1]), sub.lm) \notin DOMAIN env
    THEN Panic(pc, "unwrap")
    ELSE CallRequires(
            Subtyping(pc, cur, LookupLoc(env, SubstLoc(LocAbstract(requires[i][1]), sub.lm)),
                      SubstTy(requires[i][2], sub.m, sub.lm), "Call"),
            cur, env, requires, sub, i + 1)

\* a = [pcx, cur, env, lm]; one ensures clause whose type is unpacked as u:
\* a location the call passed is updated
EnsureUpdate(a, u, loc) ==
    [a EXCEPT !.pcx = u.pcx, !.cur = u.cur, !.env = [@ EXCEPT ![SubstLoc(loc, a.lm)] = u.ty]]

\* a location the call did not pass is new: l is the outcome of push_loc
EnsureInsert(a, u, loc, l) ==
    [a EXCEPT !.pcx = l.pcx, !.cur = l.cur, !.env = InsertLoc(@, l.fresh, u.ty),
              !.lm = MapWith(@, loc, l.fresh)]

\* an ensures clause written as declared, without unpacking
EnsureKeepPacked(a, u, loc, ty) ==
    IF loc \in DOMAIN a.lm
    THEN [a EXCEPT !.env = [@ EXCEPT ![SubstLoc(loc, a.lm)] = ty]]
    ELSE EnsureInsert(a, [pcx |-> a.pcx, cur |-> a.cur, ty |-> ty], loc,
                      PushLoc(a.pcx, a.cur))

\* one iteration of the loop of check_call over fn_sig.ensures
EnsureAt(a, u, loc, ty) ==
    IF loc \in DOMAIN a.lm THEN EnsureUpdate(a, u, loc)
    ELSE EnsureInsert(a, u, loc, PushLoc(u.pcx, u.cur))

\* the loop of check_call over fn_sig.ensures
RECURSIVE CallEnsures(_, _, _, _)
CallEnsures(a, ensures, m, i) ==
    IF i > Len(ensures) THEN a
    ELSE CallEnsures(
            EnsureAt(a, Unpack(a.pcx, a.cur, SubstTy(ensures[i][2], m, a.lm)),
                     LocAbstract(ensures[i][1]), SubstTy(ensures[i][2], m, a.lm)),
            ensures, m, i + 1)

\* the destination of a call whose return type is unpacked as u
CallWritten(w, cur, bb) == [pcx |-> w.pcx, frames |-> <<Frame(w.env, cur, bb)>>, error |-> FALSE]

CallReturn(a, u, destination) ==
    CallWritten(WritePlace(u.pcx, u.cur, a.env, destination[1], u.ty), u.cur, destination[2])

\* the end of check_call: the return type is written to the destination
\* and the continuation block is checked
CallDestination(a, ret_ty, destination) ==
    IF a.pcx.err # "" \/ destination = <<>>
    THEN [pcx |-> a.pcx, frames |-> <<>>, error |-> FALSE]
    ELSE CallReturn(a, Unpack(a.pcx, a.cur, ret_ty), destination)

\* check_call once the substitution is inferred
CallInferred(pc, cur, env, actuals, fn_sig, sub, destination) ==
    CallDestination(
        CallEnsures(
            [pcx |-> CallRequires(
                        CallArgs(CallParamHeads(pc, cur, fn_sig.params, sub.m, 1),
                                 cur, actuals, fn_sig.args, sub, 1),
                        cur, env, fn_sig.requires, sub, 1),
             cur |-> cur, env |-> env, lm |-> sub.lm],
            fn_sig.ensures, sub.m, 1),
        SubstTy(fn_sig.ret, sub.m, sub.lm), destination)

\* a check_call that goes on with the parameters it could not infer
CallCheckedAnyway(pc, cur, env, actuals, fn_sig, sub, destination) ==
    CallInferred(pc, cur, env, actuals, fn_sig, sub, destination)

\* check_call once the operands are typed: report_inference_error when the
\* substitution cannot be inferred
CallChecked(pc, cur, env, actuals, fn_sig, sub, destination) ==
    IF ~sub.ok THEN [pcx |-> pc, frames |-> <<>>, error |-> TRUE]
    ELSE CallInferred(pc, cur, env, actuals, fn_sig, sub, destination)

CallOn(pc, cur, r, fn_sig, destination) ==
    CallChecked(pc, cur, r.env, r.tys, fn_sig, InferFromFnCall(r.env, r.tys, fn_sig),
                destination)

\* Checker::check_call
CheckCall(pc, cur, env, func, args, destination) ==
    CallOn(pc, cur, CheckOperands([env |-> env, tys |-> <<>>], args), LookupFnSig(func),
           destination)

\* Checker::check_terminator: the context it leaves and the calls of
\* check_goto it makes, in order
CheckTerminator(pc, cur, env, tm, sig) ==
    CASE tm[1] = "Return"    -> CheckReturn(pc, cur, env, sig)
      [] tm[1] = "Goto"      -> [pcx |-> pc, frames |-> <<Frame(env, cur, tm[2])>>]
      [] tm[1] = "SwitchInt" -> CheckSwitchInt(pc, cur, env, tm[2], tm[3], tm[4])
      [] tm[1] = "Assert"    -> CheckAssert(pc, cur, env, tm[2], tm[3], tm[4])
      [] tm[1] = "Drop"      ->
            [pcx |-> pc, frames |-> <<Frame(MovePlace(env, tm[2]).env, cur, tm[3])>>]
      [] tm[1] = "Call"      -> CheckCall(pc, cur, env, tm[2], tm[3], tm[4])
      [] OTHER               -> [pcx |-> Panic(pc, "unsupported terminator"), frames |-> <<>>]

TerminatorAfter(r, tm, sig) == CheckTerminator(r.pcx, r.cur, r.env, tm, sig)

\* Checker::check_basic_block after the snapshot is taken: the context is
\* cleared below the cursor when the block was already visited, then the
\* statements and the terminator are checked
CheckBasicBlock(pc, cur, env, data, was_visited, sig) ==
    TerminatorAfter(
        CheckStatements([pcx |-> IF was_visited THEN Clear(pc, cur) ELSE pc,
                         cur |-> cur, env |-> env],
                        data.statements),
        data.terminator, sig)

\* a snapshot_at_dominator that takes the snapshot of the predecessor of bb
\* checked last, when one was checked
SnapshotAtPredecessor(body, snaps, bb) ==
    IF \A p \in BlocksOf(body) : bb \in Range(Successors(BlockData(body, p).terminator)) => snaps[p] = None
    THEN snaps[ImmediateDominator(body, bb)]
    ELSE snaps[CHOOSE p \in BlocksOf(body) :
                  /\ bb \in Range(Successors(BlockData(body, p).terminator)) /\ snaps[p] # None
                  /\ \A q \in BlocksOf(body) :
                        bb \in Range(Successors(BlockData(body, q).terminator)) => snaps[q] <= snaps[p]]

\* Checker::snapshot_at_dominator; None when the dominator has no snapshot
SnapshotAtDominator(body, snaps, bb) == snaps[ImmediateDominator(body, bb)]

-----------------------------------------------------------------------------
(* Checker::run, the prologue (checker.rs, run) *)
(* a = [pcx, cur, env, m, lm]: context, cursor, environment, the            *)
(* substitution of names and the substitution of abstract locations         *)

\* a parameter bound without its predicate
BindParamNoPred(a, param) ==
    [a EXCEPT !.pcx.nodes = Append(@, <<a.cur, "Binding", a.pcx.names, param[2], ETrue>>),
              !.pcx.names = @ + 1,
              !.cur       = Len(a.pcx.nodes) + 1,
              !.m         = MapWith(@, param[1], EVar(a.pcx.names))]

\* one parameter: a fresh binding guarded by the parameter's predicate over
\* the fresh names
BindParam(a, param) ==
    [a EXCEPT !.pcx.nodes = Append(@, <<a.cur, "Binding", a.pcx.names, param[2],
                                        SubstFree(param[3],
                                                  MapWith(a.m, param[1], EVar(a.pcx.names)))>>),
              !.pcx.names = @ + 1,
              !.cur       = Len(a.pcx.nodes) + 1,
              !.m         = MapWith(@, param[1], EVar(a.pcx.names))]

RECURSIVE BindParams(_, _)
BindParams(a, params) ==
    IF params = <<>> THEN a ELSE BindParams(BindParam(a, Head(params)), Tail(params))

\* one requires clause whose type is unpacked as u; fresh is the location
\* push_loc returned
RequireInsert(a, u, fresh, loc) ==
    [a EXCEPT !.pcx = u.pcx, !.cur = u.cur,
              !.env = InsertLoc(@, fresh, u.ty),
              !.lm  = MapWith(@, LocAbstract(loc), fresh)]

RequireAt(a, l, req) ==
    RequireInsert(a, Unpack(l.pcx, l.cur, SubstTy(req[2], a.m, a.lm)), l.fresh, req[1])

RECURSIVE BindRequires(_, _)
BindRequires(a, requires) ==
    IF requires = <<>> THEN a
    ELSE BindRequires(RequireAt(a, PushLoc(a.pcx, a.cur), Head(requires)), Tail(requires))

ArgInsert(a, u, local) ==
    [a EXCEPT !.pcx = u.pcx, !.cur = u.cur, !.env = InsertLoc(@, LocLocal(local), u.ty)]

\* the arguments are the locals 1 .. Len(args)
RECURSIVE BindArgs(_, _, _)
BindArgs(a, args, i) ==
    IF i > Len(args) THEN a
    ELSE BindArgs(ArgInsert(a, Unpack(a.pcx, a.cur, SubstTy(args[i], a.m, a.lm)), i),
                  args, i + 1)

\* the variables, the temporaries and the return place start uninitialized;
\* the return type and the ensures clauses are substituted
RunLocals(a, p) ==
    [pcx |-> a.pcx, cur |-> a.cur,
     env |-> [l \in DOMAIN a.env \cup {LocLocal(i) : i \in 0 .. p.locals} |->
                IF l \in DOMAIN a.env THEN a.env[l] ELSE TUninit],
     ret |-> [ret     |-> SubstTy(p.sig.ret, a.m, a.lm),
              ensures |-> [i \in DOMAIN p.sig.ensures |->
                             <<p.sig.ensures[i][1],
                               SubstTy(p.sig.ensures[i][2], a.m, a.lm)>>]]]

\* the part of run before the first check_goto
RunEntry(p) ==
    RunLocals(
        BindArgs(
            BindRequires(
                BindParams([pcx |-> PureCtxtNew, cur |-> CursorAtRoot, env |-> TypeEnvNew,
                            m |-> <<>>, lm |-> <<>>],
                           p.sig.params),
                p.sig.requires),
            p.sig.args, 1),
        p)

-----------------------------------------------------------------------------
(* Call-site instantiation (flux-refineck/src/constraint_gen.rs).  The      *)
(* types of this crate: Indexed(bty, index, is_binder), Exists(bty, pred),  *)
(* Ptr(kind, path), Ref(kind, ty), Tuple(tys), Array(ty, len),              *)
(* Constr(pred, ty), Uninit, Param.  s = [rcx, ic]: the refinement context  *)
(* and the inference context.                                               *)

TIndexed(b, e, binder) == <<"Indexed", b, e, binder>>
TPtr(kind, path)       == <<"Ptr", kind, path>>
TRef(kind, ty)         == <<"Ref", kind, ty>>
TTuple(tys)            == <<"Tuple", tys>>
TArray(ty, len)        == <<"Array", ty, len>>
TConstr(p, ty)         == <<"Constr", p, ty>>

\* base types that carry the width of the integer, and a slice
BIntTy(w)  == <<"Int", w>>
BFloat(w)  == <<"Float", w>>
BStr       == <<"Str">>
BChar      == <<"Char">>
BSlice(ty) == <<"Slice", ty>>

\* a refinement parameter of a signature, an existential variable of the
\* inference context, and Path::to_expr of a location
ESig(i)   == <<"SigVar", i>>
EEVar(n)  == <<"EVar", n>>
ELoc(loc) == <<"Loc", loc>>

\* the leaves <<tag, k>> of an expression replaced along the map m
RECURSIVE SubstLeaf(_, _, _)
SubstLeaf(t, tag, m) ==
    CASE t[1] = tag    -> IF t[2] \in DOMAIN m THEN m[t[2]] ELSE t
      [] t[1] = "Bin"  -> EBin(t[2], SubstLeaf(t[3], tag, m), SubstLeaf(t[4], tag, m))
      [] t[1] = "Not"  -> ENot(SubstLeaf(t[2], tag, m))
      [] t[1] = "Neg"  -> ENeg(SubstLeaf(t[2], tag, m))
      [] OTHER         -> t

\* a path that is a leaf <<tag, k>> replaced by the location m gives it
SubstPath(path, tag, m) ==
    IF path[1] = tag /\ path[2] \in DOMAIN m
    THEN IF m[path[2]][1] = "Loc" THEN m[path[2]][2] ELSE m[path[2]]
    ELSE path

\* replace_bvars_with / replace_evars on a type
RECURSIVE SubstLeafTy(_, _, _)
SubstLeafTy(ty, tag, m) ==
    CASE ty[1] = "Indexed" -> TIndexed(ty[2], SubstLeaf(ty[3], tag, m), ty[4])
      [] ty[1] = "Exists"  -> TExists(ty[2], SubstLeaf(ty[3], tag, m))
      [] ty[1] = "Ref"     -> TRef(ty[2], SubstLeafTy(ty[3], tag, m))
      [] ty[1] = "Ptr"     -> TPtr(ty[2], SubstPath(ty[3], tag, m))
      [] ty[1] = "Tuple"   -> TTuple([i \in DOMAIN ty[2] |-> SubstLeafTy(ty[2][i], tag, m)])
      [] ty[1] = "Array"   -> TArray(SubstLeafTy(ty[2], tag, m), ty[3])
      [] ty[1] = "Constr"  -> TConstr(SubstLeaf(ty[2], tag, m), SubstLeafTy(ty[3], tag, m))
      [] OTHER             -> ty

\* the names free in an expression
RECURSIVE FreeVars(_)
FreeVars(t) ==
    CASE t[1] = "Var" -> {t[2]}
      [] t[1] = "Bin" -> FreeVars(t[3]) \cup FreeVars(t[4])
      [] t[1] \in {"Not", "Neg"} -> FreeVars(t[2])
      [] OTHER        -> {}

\* Scope: the names bound down to the cursor
ScopeNames(pc, cur) == {ScopeAt(pc, cur)[i][1] : i \in DOMAIN ScopeAt(pc, cur)}

\* InferCtxt::new: one context of evars, over the scope of rcx; debug tells
\* whether debug assertions are compiled in
\* (captured, depths, returns and pairs are the history of the context: the
\* scopes captured, the depth of the stack after each push and pop, the
\* depths at the entry and at the return of each call of subtyping, and the
\* pairs of indices refine_arg_subtyping was called on)
InferCtxtNew(pc, cur, debug) ==
    [scopes  |-> <<[cx |-> 1, names |-> ScopeNames(pc, cur)]>>,
     next_cx |-> 2,
     captured |-> <<ScopeNames(pc, cur)>>,
     depths  |-> <<1>>,
     returns |-> <<>>,
     pairs   |-> <<>>,
     evars   |-> <<>>,
     debug   |-> debug]

\* InferCtxt::push_scope
PushScope(s, cur) ==
    [s EXCEPT !.ic.scopes   = Append(@, [cx |-> s.ic.next_cx,
                                        names |-> ScopeNames(s.rcx, cur)]),
              !.ic.next_cx  = @ + 1,
              !.ic.captured = Append(@, ScopeNames(s.rcx, cur)),
              !.ic.depths   = Append(@, Len(s.ic.scopes) + 1)]

\* a pop_scope that leaves the stack as it is
PopScopeKeep(s) == [s EXCEPT !.ic.depths = Append(@, Len(s.ic.scopes))]

\* InferCtxt::pop_scope
PopScope(s) ==
    [s EXCEPT !.ic.scopes = SubSeq(@, 1, Len(@) - 1),
              !.ic.depths = Append(@, Len(s.ic.scopes) - 1)]

\* InferCtxt::fresh_evar: an unsolved evar in the last context; it is the
\* evar number Len(evars)
FreshEVar(s) ==
    [s EXCEPT !.ic.evars = Append(@, [cx  |-> s.ic.scopes[Len(s.ic.scopes)].cx,
                                     sol |-> <<>>])]

\* EVarGen::unify: the evar takes the solution when it has none, or when the
\* solution is to be replaced
Unify(s, n, e, replace) ==
    IF s.ic.evars[n].sol = <<>> \/ replace
    THEN [s EXCEPT !.ic.evars[n].sol = <<e>>]
    ELSE s

\* a unification that does not look at the scope of the evar
UnifyExprsNoScope(s, e1, e2, replace) ==
    IF e2[1] # "EVar" THEN s ELSE Unify(s, e2[2], e1, replace)

\* a unification that also assigns an evar standing on the left
UnifyExprsEitherSide(s, e1, e2, replace) ==
    IF e2[1] # "EVar"
    THEN IF e1[1] = "EVar" THEN Unify(s, e1[2], e2, replace) ELSE s
    ELSE IF \A i \in DOMAIN s.ic.scopes : s.ic.scopes[i].cx # s.ic.evars[e2[2]].cx
    THEN [s EXCEPT !.rcx = Panic(@, "no entry found for key")]
    ELSE IF FreeVars(e1) \subseteq
            s.ic.scopes[CHOOSE i \in DOMAIN s.ic.scopes :
                           s.ic.scopes[i].cx = s.ic.evars[e2[2]].cx].names
    THEN Unify(s, e2[2], e1, replace)
    ELSE s

\* InferCtxt::unify_args and unify_exprs: an evar on the right is unified
\* with the left side when the left side is closed in the scope of the evar;
\* the scope of the evar must still be there
UnifyExprs(s, e1, e2, replace) ==
    IF e2[1] # "EVar" THEN s
    ELSE IF \A i \in DOMAIN s.ic.scopes : s.ic.scopes[i].cx # s.ic.evars[e2[2]].cx
    THEN [s EXCEPT !.rcx = Panic(@, "no entry found for key")]
    ELSE IF FreeVars(e1) \subseteq
            s.ic.scopes[CHOOSE i \in DOMAIN s.ic.scopes :
                           s.ic.scopes[i].cx = s.ic.evars[e2[2]].cx].names
    THEN Unify(s, e2[2], e1, replace)
    ELSE s

\* InferCtxt::check_pred
InfCheckPred(s, cur, p, tag) == [s EXCEPT !.rcx = PushHead(@, cur, p, tag)]

\* a refine_arg_subtyping that emits the equality only when the unification
\* changed nothing
RefineArgSubtypingEither(s, cur, arg1, arg2, is_binder, tag) ==
    IF arg1 = arg2 THEN s
    ELSE IF UnifyExprs(s, arg1, arg2, is_binder) # s
    THEN UnifyExprs(s, arg1, arg2, is_binder)
    ELSE InfCheckPred(s, cur, EBin("Eq", arg1, arg2), tag)

\* a refine_arg_subtyping that does not return early on equal arguments
RefineArgSubtypingNoReturn(s, cur, arg1, arg2, is_binder, tag) ==
    InfCheckPred(UnifyExprs(s, arg1, arg2, is_binder), cur, EBin("Eq", arg1, arg2), tag)

\* the return of refine_arg_subtyping, entered in s, on a pair of indices:
\* the pair, the evars before and after it and the nodes it added are
\* recorded in the history
PairReturned(s, r, arg1, arg2) ==
    [r EXCEPT !.ic.pairs = Append(@, [arg1   |-> arg1,
                                      arg2   |-> arg2,
                                      before |-> s.ic.evars,
                                      after  |-> r.ic.evars,
                                      nodes  |-> Len(r.rcx.nodes) - Len(s.rcx.nodes)])]

\* InferCtxt::refine_arg_subtyping on two expressions
RefineArgSubtyping(s, cur, arg1, arg2, is_binder, tag) ==
    PairReturned(s, IF arg1 = arg2 THEN s
                    ELSE InfCheckPred(UnifyExprs(s, arg1, arg2, is_binder), cur,
                                      EBin("Eq", arg1, arg2), tag),
                 arg1, arg2)

\* debug_assert_eq!: a panic when the sides differ and debug assertions are
\* compiled in
DebugAssertEq(s, a, b) ==
    IF a # b /\ s.ic.debug THEN [s EXCEPT !.rcx = Panic(@, "debug_assert_eq")] ELSE s

RECURSIVE InfSubtyping(_, _, _, _, _)

\* the return of a call of subtyping entered with the stack of scopes at
\* the given depth: the two depths are recorded in the history
SubtypingReturned(depth, r) ==
    [r EXCEPT !.ic.returns = Append(@, <<depth, Len(r.ic.scopes)>>)]

\* generic_arg_subtyping that compares every position forward
InfGenericArgSubtypingForward(s, cur, variance, ty1, ty2, tag) ==
    InfSubtyping(s, cur, ty1, ty2, tag)

\* InferCtxt::generic_arg_subtyping on two types
InfGenericArgSubtyping(s, cur, variance, ty1, ty2, tag) ==
    CASE variance = "Covariant"     -> InfSubtyping(s, cur, ty1, ty2, tag)
      [] variance = "Invariant"     ->
            InfSubtyping(InfSubtyping(s, cur, ty1, ty2, tag), cur, ty2, ty1, tag)
      [] variance = "Contravariant" -> InfSubtyping(s, cur, ty2, ty1, tag)
      [] OTHER                      -> s

\* the izip! loop of bty_subtyping over (variance, arg1, arg2), from position i
RECURSIVE InfGenericArgs(_, _, _, _, _, _, _)
InfGenericArgs(s, cur, variances, substs1, substs2, i, tag) ==
    IF i > Len(variances) \/ i > Len(substs1) \/ i > Len(substs2) THEN s
    ELSE InfGenericArgs(
            InfGenericArgSubtyping(s, cur, variances[i], substs1[i], substs2[i], tag),
            cur, variances, substs1, substs2, i + 1, tag)

\* InferCtxt::bty_subtyping
InfBtySubtyping(s, cur, bty1, bty2, tag) ==
    CASE bty1[1] = "Int"   /\ bty2[1] = "Int"   -> DebugAssertEq(s, bty1, bty2)
      [] bty1[1] = "Uint"  /\ bty2[1] = "Uint"  -> DebugAssertEq(s, bty1, bty2)
      [] bty1[1] = "Adt"   /\ bty2[1] = "Adt"   ->
            InfGenericArgs(
                DebugAssertEq(DebugAssertEq(s, bty1[2], bty2[2]), Len(bty1[3]), Len(bty2[3])),
                cur, VariancesOf(bty1[2]), bty1[3], bty2[3], 1, tag)
      [] bty1[1] = "Float" /\ bty2[1] = "Float" -> DebugAssertEq(s, bty1, bty2)
      [] bty1[1] = "Slice" /\ bty2[1] = "Slice" ->
            InfSubtyping(s, cur, bty1[2], bty2[2], tag)
      [] bty1[1] = bty2[1] /\ bty1[1] \in {"Bool", "Str", "Char"} -> s
      [] OTHER -> [s EXCEPT !.rcx = Panic(@, "unexpected base types")]

\* the Exists arm on the left: the variable is defined, the predicate assumed
InfUnpacked(s, b, bty, ty2, tag) ==
    InfSubtyping([s EXCEPT !.rcx = b.pcx], b.cur, TIndexed(bty, EVar(b.fresh), FALSE),
                 ty2, tag)

\* the Exists arm on the right, once the scope is pushed and the evar made
InfInstantiated(s, cur, ty1, exists, tag) ==
    PopScope(
        InfSubtyping(
            InfCheckPred(s, cur, SubstBound(exists[3], EEVar(Len(s.ic.evars))), tag),
            cur, ty1, TIndexed(exists[2], EEVar(Len(s.ic.evars)), FALSE), tag))

\* a subtyping of mutable references that checks the referents one way
InfRefMutCovariant(s, cur, ty1, ty2, tag) == InfSubtyping(s, cur, ty1, ty2, tag)

\* the arm of two mutable references, on their referents
InfRefMut(s, cur, ty1, ty2, tag) ==
    InfSubtyping(InfSubtyping(s, cur, ty1, ty2, tag), cur, ty2, ty1, tag)

\* the arm of two shared references, on their referents
InfRefShr(s, cur, ty1, ty2, tag) == InfSubtyping(s, cur, ty1, ty2, tag)

\* the loop of the arm of two tuples, from position i
RECURSIVE InfTuple(_, _, _, _, _, _)
InfTuple(s, cur, tys1, tys2, i, tag) ==
    IF i > Len(tys1) \/ i > Len(tys2) THEN s
    ELSE InfTuple(InfSubtyping(s, cur, tys1[i], tys2[i], tag), cur, tys1, tys2, i + 1, tag)

\* the arm of a constrained type on the right: the guard is an obligation
InfConstrRight(s, cur, ty1, p2, ty2, tag) ==
    InfSubtyping(InfCheckPred(s, cur, p2, tag), cur, ty1, ty2, tag)

\* the arm of a constrained type on the left, once the guard is assumed at b
InfConstrLeft(s, b, ty1, ty2, tag) ==
    InfSubtyping([s EXCEPT !.rcx = b.pcx], b.cur, ty1, ty2, tag)

\* an arm (_, Uninit) that accepts an uninitialized left side only
InfIntoUninitOnlyUninit(s, ty1) ==
    IF ty1[1] = "Uninit" THEN s ELSE [s EXCEPT !.rcx = Panic(@, "unreachable")]

\* the arm (_, Uninit): nothing is checked
InfIntoUninit(s, ty1) == s

\* InferCtxt::subtyping, the arms in the order of the match; every push is
\* on a breadcrumb of the cursor
InfSubtyping(s, cur, ty1, ty2, tag) ==
    SubtypingReturned(Len(s.ic.scopes),
        IF ty1[1] = "Exists"
        THEN InfUnpacked(s, PushBinding(s.rcx, cur, SortOf(ty1[2]), ty1[3]), ty1[2], ty2, tag)
        ELSE IF ty1[1] = "Indexed" /\ ty2[1] = "Indexed"
        THEN RefineArgSubtyping(InfBtySubtyping(s, cur, ty1[2], ty2[2], tag), cur,
                                ty1[3], ty2[3], ty2[4], tag)
        ELSE IF ty1[1] = "Indexed" /\ ty2[1] = "Exists"
        THEN InfInstantiated(FreshEVar(PushScope(s, cur)), cur, ty1, ty2, tag)
        ELSE IF ty1[1] = "Ptr" /\ ty2[1] = "Ptr"
        THEN DebugAssertEq(DebugAssertEq(s, ty1[2], ty2[2]), ty1[3], ty2[3])
        ELSE IF ty1[1] = "Ref" /\ ty2[1] = "Ref" /\ ty1[2] = "Mut" /\ ty2[2] = "Mut"
        THEN InfRefMut(s, cur, ty1[3], ty2[3], tag)
        ELSE IF ty1[1] = "Ref" /\ ty2[1] = "Ref" /\ ty1[2] = "Shr" /\ ty2[2] = "Shr"
        THEN InfRefShr(s, cur, ty1[3], ty2[3], tag)
        ELSE IF ty2[1] = "Uninit"
        THEN InfIntoUninit(s, ty1)
        ELSE IF ty1[1] = "Param" /\ ty2[1] = "Param"
        THEN DebugAssertEq(s, ty1[2], ty2[2])
        ELSE IF ty1[1] = "Tuple" /\ ty2[1] = "Tuple"
        THEN InfTuple(DebugAssertEq(s, Len(ty1[2]), Len(ty2[2])), cur, ty1[2], ty2[2], 1, tag)
        ELSE IF ty1[1] = "Array" /\ ty2[1] = "Array"
        THEN InfSubtyping(DebugAssertEq(s, ty1[3], ty2[3]), cur, ty1[2], ty2[2], tag)
        ELSE IF ty2[1] = "Constr"
        THEN InfConstrRight(s, cur, ty1, ty2[2], ty2[3], tag)
        ELSE IF ty1[1] = "Constr"
        THEN InfConstrLeft(s, PushPred(s.rcx, cur, ty1[2]), ty1[3], ty2, tag)
        ELSE [s EXCEPT !.rcx = Panic(@, "unreachable")])

\* EVarGen::solve: the solution of every evar, or the failure UnsolvedEvar
Solve(ic) ==
    [ok |-> \A n \in DOMAIN ic.evars : ic.evars[n].sol # <<>>,
     m  |-> [n \in {k \in DOMAIN ic.evars : ic.evars[k].sol # <<>>} |-> ic.evars[n].sol[1]]]

\* the symbolic heap of this crate: the type of each location and the set of
\* the locations lent out
EnvGet(env, path) == env.bindings[path]

EnvUpdate(env, path, ty) == [env EXCEPT !.bindings[path] = ty]

EnvBlock(env, path) == [env EXCEPT !.blocked = @ \cup {path}]

EnvReplaceEVars(env, m) ==
    [env EXCEPT !.bindings = [l \in DOMAIN @ |-> SubstLeafTy(@[l], "EVar", m)]]

\* RefineCtxt::replace_evars
RcxReplaceEVars(pc, m) ==
    [pc EXCEPT !.nodes = [i \in DOMAIN @ |->
                            <<@[i][1], @[i][2], @[i][3], @[i][4], SubstLeaf(@[i][5], "EVar", m)>>]]

-----------------------------------------------------------------------------
(* The procedures checked: a body, a lowered signature, the number of locals *)

Block(stmts, tm) == [statements |-> stmts, terminator |-> tm]

Param(name, sort, pred) == <<name, sort, pred>>

\* fn(x: int[@n], b: bool[@c]) -> int; the names of the signature are 11, 12
FamilySig ==
    [params   |-> <<Param(11, "int", ETrue), Param(12, "bool", ETrue)>>,
     requires |-> <<>>,
     args     |-> <<TRefine(BInt, EVar(11)), TRefine(BBool, EVar(12))>>,
     ret      |-> TExists(BInt, ETrue),
     ensures  |-> <<>>]

\* the entry block of a body has no predecessor
FamilyTargets == 1 .. (NumBlocks - 1)

\* a block returns, jumps, or branches on the boolean argument
FamilyTerms ==
    {TmReturn}
    \cup {TmGoto(t) : t \in FamilyTargets}
    \cup {TmSwitch(OpCopy(Place(2)), <<<<0, t[1]>>>>, t[2]) :
            t \in {u \in FamilyTargets \X FamilyTargets : u[1] <= u[2]}}

\* an odd block assigns _1 its number, an even block increments _1; a
\* returning block copies _1 to the return place
FamilyStmts(bb, tm) ==
    <<IF bb % 2 = 1
      THEN StAssign(Place(1), RvUse(OpInt(bb)))
      ELSE StAssign(Place(1), RvBin("Add", OpCopy(Place(1)), OpInt(1)))>>
    \o (IF tm = TmReturn THEN <<StAssign(Place(RETURN_PLACE), RvUse(OpCopy(Place(1))))>>
        ELSE <<>>)

FamilyBody(tms) ==
    [i \in 1 .. NumBlocks |-> Block(FamilyStmts(i - 1, tms[i]), tms[i])]

Family ==
    {[name |-> "family", body |-> FamilyBody(tms), sig |-> FamilySig, locals |-> 2] :
        tms \in [1 .. NumBlocks -> FamilyTerms]}

\* fn(x: int{v: v > 0}) -> int{v: v > 0}, lowered: x: int[@n] with n > 0
PosSig ==
    [params   |-> <<Param(11, "int", EBin("Gt", EVar(11), EConst(0)))>>,
     requires |-> <<>>,
     args     |-> <<TRefine(BInt, EVar(11))>>,
     ret      |-> TExists(BInt, EBin("Gt", EBound, EConst(0))),
     ensures  |-> <<>>]

\* scenario 1: the procedure returns x
ProgReturnArg ==
    [name |-> "return_arg", sig |-> PosSig, locals |-> 1,
     body |-> <<Block(<<StAssign(Place(RETURN_PLACE), RvUse(OpCopy(Place(1))))>>, TmReturn)>>]

\* scenario 2 and ealias02.rs test1: the procedure returns x - 1
ProgReturnPred ==
    [name |-> "return_pred", sig |-> PosSig, locals |-> 1,
     body |-> <<Block(<<StAssign(Place(RETURN_PLACE),
                                 RvBin("Sub", OpCopy(Place(1)), OpInt(1)))>>, TmReturn)>>]

\* ealias02.rs test3: fn(x: i32) -> i32[x + 1] returning x + 2
ProgReturnInc ==
    [name |-> "return_inc", locals |-> 1,
     sig  |-> [params   |-> <<Param(11, "int", ETrue)>>,
               requires |-> <<>>,
               args     |-> <<TRefine(BInt, EVar(11))>>,
               ret      |-> TRefine(BInt, EBin("Add", EVar(11), EConst(1))),
               ensures  |-> <<>>],
     body |-> <<Block(<<StAssign(Place(RETURN_PLACE),
                                 RvBin("Add", OpCopy(Place(1)), OpInt(2)))>>, TmReturn)>>]

\* ealias02.rs test2: fn(x: Lb[2]) -> Lb[2] returning x - 1
ProgReturnLb ==
    [name |-> "return_lb", locals |-> 1,
     sig  |-> [params   |-> <<Param(11, "int", EBin("Le", EConst(2), EVar(11)))>>,
               requires |-> <<>>,
               args     |-> <<TRefine(BInt, EVar(11))>>,
               ret      |-> TExists(BInt, EBin("Le", EConst(2), EBound)),
               ensures  |-> <<>>],
     body |-> <<Block(<<StAssign(Place(RETURN_PLACE),
                                 RvBin("Sub", OpCopy(Place(1)), OpInt(1)))>>, TmReturn)>>]

\* scenario 3: fn(b: bool) -> int{v: post}; one branch assigns x := 1, the
\* other x := 2, and the branches merge before the return of x
ProgJoin(name, post) ==
    [name |-> name, locals |-> 2,
     sig  |-> [params   |-> <<Param(11, "bool", ETrue)>>,
               requires |-> <<>>,
               args     |-> <<TRefine(BBool, EVar(11))>>,
               ret      |-> TExists(BInt, post),
               ensures  |-> <<>>],
     body |-> <<Block(<<>>, TmSwitch(OpCopy(Place(1)), <<<<0, 1>>>>, 2)),
                Block(<<StAssign(Place(2), RvUse(OpInt(1)))>>, TmGoto(3)),
                Block(<<StAssign(Place(2), RvUse(OpInt(2)))>>, TmGoto(3)),
                Block(<<StAssign(Place(RETURN_PLACE), RvUse(OpMove(Place(2))))>>, TmReturn)>>]

ProgJoinGood == ProgJoin("join_good", EBin("Ge", EBound, EConst(1)))
ProgJoinBad  == ProgJoin("join_bad",  EBin("Gt", EBound, EConst(1)))

\* fn(r: &strg<l: int[@n]>) ensures l: int{v: v > n}: the procedure stores
\* *r + inc through the reference
ProgEnsures(name, inc) ==
    [name |-> name, locals |-> 2,
     sig  |-> [params   |-> <<Param(1, "int", ETrue)>>,
               requires |-> <<<<2, TRefine(BInt, EVar(1))>>>>,
               args     |-> <<TStrgRef(LocAbstract(2))>>,
               ret      |-> TExists(BInt, ETrue),
               ensures  |-> <<<<2, TExists(BInt, EBin("Gt", EBound, EVar(1)))>>>>],
     body |-> <<Block(<<StAssign(Deref(1), RvBin("Add", OpCopy(Deref(1)), OpInt(inc))),
                        StAssign(Place(RETURN_PLACE), RvUse(OpInt(0)))>>, TmReturn)>>]

ProgEnsuresGood == ProgEnsures("ensures_good", 1)
ProgEnsuresBad  == ProgEnsures("ensures_bad", 0)

\* x is moved into a temporary and then read again for the return value
ProgUseAfterMove ==
    [name |-> "use_after_move", sig |-> PosSig, locals |-> 2,
     body |-> <<Block(<<StAssign(Place(2), RvUse(OpMove(Place(1)))),
                        StAssign(Place(RETURN_PLACE), RvUse(OpCopy(Place(1))))>>, TmReturn)>>]

\* x is dropped and then read for the return value in the next block
ProgUseAfterDrop ==
    [name |-> "use_after_drop", sig |-> PosSig, locals |-> 1,
     body |-> <<Block(<<>>, TmDrop(Place(1), 1)),
                Block(<<StAssign(Place(RETURN_PLACE), RvUse(OpCopy(Place(1))))>>, TmReturn)>>]

\* y = f(x) and the return of y, for a procedure f of LookupFnSig
ProgCall(name, func) ==
    [name |-> name, sig |-> PosSig, locals |-> 2,
     body |-> <<Block(<<>>, TmCall(func, <<OpCopy(Place(1))>>, <<Place(2), 1>>)),
                Block(<<StAssign(Place(RETURN_PLACE), RvUse(OpMove(Place(2))))>>, TmReturn)>>]

ProgCallPos   == ProgCall("call_pos", "pos")
ProgCallGhost == ProgCall("call_ghost", "ghost")
ProgCallFresh == ProgCall("call_fresh", "fresh")

\* strg(&mut x) and the return of x
ProgCallStrg ==
    [name |-> "call_strg", sig |-> PosSig, locals |-> 3,
     body |-> <<Block(<<StAssign(Place(2), RvMutRef(Place(1)))>>,
                      TmCall("strg", <<OpMove(Place(2))>>, <<Place(3), 1>>)),
                Block(<<StAssign(Place(RETURN_PLACE), RvUse(OpCopy(Place(1))))>>, TmReturn)>>]

\* a call that does not return
ProgCallDiverge ==
    [name |-> "call_diverge", sig |-> PosSig, locals |-> 1,
     body |-> <<Block(<<>>, TmCall("pos", <<OpCopy(Place(1))>>, <<>>))>>]

\* one branch reaches the join block 3 directly, the other one through a
\* call of func in block 2; the branch checked first goes to block first
ProgCallBranch(name, func, first) ==
    [name |-> name, sig |-> PosSig, locals |-> 2,
     body |-> <<Block(<<>>, TmSwitch(OpCopy(Place(1)), <<<<1, first>>>>, 3 - first)),
                Block(<<StAssign(Place(2), RvUse(OpInt(1)))>>, TmGoto(3)),
                Block(<<>>, TmCall(func, <<OpCopy(Place(1))>>, <<Place(2), 3>>)),
                Block(<<StAssign(Place(RETURN_PLACE), RvUse(OpMove(Place(2))))>>, TmReturn)>>]

\* ignore01.rs test: if lo < val { assert(hi < val) } for the procedure
\* assert of signature fn(bool[true]); val is any integer
ProgIgnore(name, lo, hi) ==
    [name |-> name, locals |-> 4,
     sig  |-> [params   |-> <<Param(11, "int", ETrue)>>,
               requires |-> <<>>,
               args     |-> <<TRefine(BInt, EVar(11))>>,
               ret      |-> TExists(BInt, ETrue),
               ensures  |-> <<>>],
     body |-> <<Block(<<StAssign(Place(2), RvBin("Lt", OpInt(lo), OpCopy(Place(1))))>>,
                      TmSwitch(OpMove(Place(2)), <<<<0, 2>>>>, 1)),
                Block(<<StAssign(Place(3), RvBin("Lt", OpInt(hi), OpCopy(Place(1))))>>,
                      TmCall("assert", <<OpMove(Place(3))>>, <<Place(4), 2>>)),
                Block(<<StAssign(Place(RETURN_PLACE), RvUse(OpInt(0)))>>, TmReturn)>>]

ProgIgnoreBad  == ProgIgnore("ignore01", 1, 2)
ProgIgnoreGood == ProgIgnore("ignore01_implied", 2, 1)

\* match val { 1 => pos(val), 2 => 0, _ => pos(val) } for any integer val
ProgCallMatch ==
    [name |-> "call_match", locals |-> 2,
     sig  |-> [params   |-> <<Param(11, "int", ETrue)>>,
               requires |-> <<>>,
               args     |-> <<TRefine(BInt, EVar(11))>>,
               ret      |-> TExists(BInt, ETrue),
               ensures  |-> <<>>],
     body |-> <<Block(<<>>, TmSwitch(OpCopy(Place(1)), <<<<1, 1>>, <<2, 2>>>>, 3)),
                Block(<<>>, TmCall("pos", <<OpCopy(Place(1))>>, <<Place(2), 4>>)),
                Block(<<StAssign(Place(2), RvUse(OpInt(0)))>>, TmGoto(4)),
                Block(<<>>, TmCall("pos", <<OpCopy(Place(1))>>, <<Place(2), 4>>)),
                Block(<<StAssign(Place(RETURN_PLACE), RvUse(OpMove(Place(2))))>>, TmReturn)>>]

ProgCallBranchPos   == ProgCallBranch("call_branch_pos", "pos", 1)
ProgCallBranchGhost == ProgCallBranch("call_branch_ghost", "ghost", 1)
ProgCallFirstGhost  == ProgCallBranch("call_first_ghost", "ghost", 2)

Scenarios ==
    {ProgReturnArg, ProgReturnPred, ProgReturnLb, ProgReturnInc, ProgJoinGood, ProgJoinBad,
     ProgEnsuresGood, ProgEnsuresBad, ProgUseAfterMove, ProgUseAfterDrop,
     ProgCallPos, ProgCallGhost, ProgCallFresh, ProgCallStrg, ProgCallDiverge,
     ProgCallBranchPos, ProgCallBranchGhost, ProgCallFirstGhost,
     ProgIgnoreBad, ProgIgnoreGood, ProgCallMatch}

Programs == Family \cup Scenarios

-----------------------------------------------------------------------------
(* The run of the checker as a state machine.  The depth-first recursion of *)
(* check_goto / check_basic_block is the stack of pending calls; the        *)
(* worklist is popped when the recursion has returned.                      *)

\* an upper bound on the number of handler steps of one run of both passes
MaxSteps == 25 * NumBlocks

\* an event of the history: <<kind, pass, block, flag>>
Event(kind, pass, bb, flag) == <<kind, pass, bb, flag>>

NoSnapshots == [bb \in BlocksOf(prog.body) |-> None]

Running == phase \in {"infer", "check"} /\ Len(log) < MaxSteps

PhaseAfter(pc, next_phase) == IF pc.err # "" THEN "panic" ELSE next_phase

\* the outcome r of a terminator is Err(ErrorReported)
Reported(r) == "error" \in DOMAIN r /\ r.error

\* the phase after check_basic_block: `?` hands an error up to run, which
\* returns it
PhaseAfterBlock(r, next_phase) ==
    IF r.pcx.err # "" THEN "panic" ELSE IF Reported(r) THEN "error" ELSE next_phase

\* WorkQueue::insert: at the back, unless the block is already queued
QueueInsert(q, bb) == IF bb \in Range(q) THEN q ELSE Append(q, bb)

\* no call is being checked
NoCall ==
    /\ call = <<>> /\ cpc = "none" /\ cenv = <<>> /\ rcx = <<>>
    /\ infcx = <<>> /\ cfn = <<>> /\ cout = <<>>

Init ==
    /\ prog \in Programs
    /\ phase = "init"
    /\ stack = <<>>
    /\ queue = <<>>
    /\ visited = {}
    /\ snapshots = <<>>
    /\ pcx = PureCtxtNew
    /\ ret = [ret |-> TUninit, ensures |-> <<>>]
    /\ inf_envs = <<>>
    /\ shapes = <<>>
    /\ chk_envs = <<>>
    /\ kvars = 0
    /\ log = <<>>
    /\ NoCall

\* Checker::new and the prologue of run, up to the call check_goto(START_BLOCK)
Start(next_phase, r) ==
    /\ phase' = PhaseAfter(r.pcx, next_phase)
    /\ pcx' = r.pcx
    /\ ret' = r.ret
    /\ stack' = <<Frame(r.env, r.cur, START_BLOCK)>>
    /\ queue' = <<>>
    /\ visited' = {}
    /\ snapshots' = NoSnapshots
    /\ log' = Append(log, Event("start", next_phase, START_BLOCK, 0))

\* Checker::infer: run in inference mode over an empty map of environments
InferStart ==
    /\ phase = "init"
    /\ Start("infer", RunEntry(prog))
    /\ inf_envs' = <<>>
    /\ UNCHANGED <<prog, shapes, chk_envs, kvars>>
    /\ UNCHANGED callvars

\* Checker::infer once run has returned: the environments become shapes
InferDone ==
    /\ phase = "infer" /\ stack = <<>> /\ queue = <<>>
    /\ phase' = "inferred"
    /\ shapes' = [bb \in DOMAIN inf_envs |-> IntoShape(inf_envs[bb])]
    /\ log' = Append(log, Event("done", "infer", START_BLOCK, 0))
    /\ UNCHANGED <<prog, stack, queue, visited, snapshots, pcx, ret, inf_envs,
                   chk_envs, kvars>>
    /\ UNCHANGED callvars

\* Checker::check: run in checking mode over the shapes, a new context and a
\* new store of kvars
CheckStart ==
    /\ phase = "inferred"
    /\ Start("check", RunEntry(prog))
    /\ chk_envs' = <<>>
    /\ kvars' = 0
    /\ UNCHANGED <<prog, inf_envs, shapes>>
    /\ UNCHANGED callvars

\* Checker::check once run has returned
CheckDone ==
    /\ phase = "check" /\ stack = <<>> /\ queue = <<>>
    /\ phase' = "done"
    /\ log' = Append(log, Event("done", "check", START_BLOCK, 0))
    /\ UNCHANGED <<prog, stack, queue, visited, snapshots, pcx, ret, inf_envs,
                   shapes, chk_envs, kvars>>
    /\ UNCHANGED callvars

\* a check_basic_block that records no snapshot
BasicBlockApplyNoSnapshot(bb, cur, r, rest, kind) ==
    /\ snapshots' = snapshots
    /\ visited' = visited \cup {bb}
    /\ pcx' = r.pcx
    /\ stack' = r.frames \o rest
    /\ phase' = PhaseAfterBlock(r, phase)
    /\ log' = Append(log, Event(kind, phase, bb, IF bb \in visited THEN 1 ELSE 0))

\* check_basic_block(env, cursor, bb) with outcome r of the statements and
\* the terminator: the snapshot is recorded, the block marked visited, and
\* the calls of check_goto the terminator makes are pending before rest
BasicBlockApply(bb, cur, r, rest, kind) ==
    /\ snapshots' = [snapshots EXCEPT ![bb] = cur]
    /\ visited' = visited \cup {bb}
    /\ pcx' = r.pcx
    /\ stack' = r.frames \o rest
    /\ phase' = PhaseAfterBlock(r, phase)
    /\ log' = Append(log, Event(kind, phase, bb, IF bb \in visited THEN 1 ELSE 0))

\* check_goto on a block that is no join point: check_basic_block at once
GotoBasicBlock ==
    /\ Running /\ stack # <<>>
    /\ ~IsJoinPoint(prog.body, Head(stack).target)
    /\ BasicBlockApply(Head(stack).target, Head(stack).cur,
            CheckBasicBlock(pcx, Head(stack).cur, Head(stack).env,
                            BlockData(prog.body, Head(stack).target),
                            Head(stack).target \in visited, ret),
            Tail(stack), "block")
    /\ UNCHANGED <<prog, queue, ret, inf_envs, shapes, chk_envs, kvars>>
    /\ UNCHANGED callvars

\* a check_goto that queues the join point and leaves it marked visited
JoinApplyKeepVisited(target, requeue) ==
    /\ queue' = IF requeue THEN QueueInsert(queue, target) ELSE queue
    /\ visited' = visited
    /\ stack' = Tail(stack)
    /\ log' = Append(log, Event("join", phase, target, IF requeue THEN 1 ELSE 0))

\* a check_goto that queues the join point whatever the mode answered
JoinApplyAlways(target, requeue) ==
    /\ queue' = QueueInsert(queue, target)
    /\ visited' = visited \ {target}
    /\ stack' = Tail(stack)
    /\ log' = Append(log, Event("join", phase, target, IF requeue THEN 1 ELSE 0))

\* the end of check_goto on a join point: the block is queued and no longer
\* visited when the mode answered true
JoinApply(target, requeue) ==
    /\ queue' = IF requeue THEN QueueInsert(queue, target) ELSE queue
    /\ visited' = IF requeue THEN visited \ {target} ELSE visited
    /\ stack' = Tail(stack)
    /\ log' = Append(log, Event("join", phase, target, IF requeue THEN 1 ELSE 0))

\* unwrap on None: the run is aborted
PanicApply(bb, msg) ==
    /\ phase' = "panic"
    /\ pcx' = Panic(pcx, msg)
    /\ log' = Append(log, Event("panic", phase, bb, 0))
    /\ UNCHANGED <<stack, queue, visited, snapshots>>

\* the cursor check_goto and run take at the snapshot of the immediate
\* dominator of bb; None when there is no such snapshot in the context
DominatorCursor(bb) == CursorAt(pcx, SnapshotAtDominator(prog.body, snapshots, bb))

\* a check_goto_join_point that answers true whatever the join reports
JoinInferenceAlways(target, j) ==
    /\ inf_envs' = MapWith(inf_envs, target, j.env)
    /\ JoinApply(target, TRUE)

\* a check_goto_join_point that keeps the first environment stored
JoinInferenceKeepFirst(target, j) ==
    /\ inf_envs' = IF target \in DOMAIN inf_envs THEN inf_envs
                   ELSE MapWith(inf_envs, target, j.env)
    /\ JoinApply(target, target \notin DOMAIN inf_envs)

\* Inference::check_goto_join_point with outcome j of the join
JoinInferenceApply(target, j) ==
    /\ inf_envs' = MapWith(inf_envs, target, j.env)
    /\ JoinApply(target, j.changed)

\* check_goto on a join point, inference mode: the first environment to
\* arrive is stored, a later one is joined into the stored one
GotoJoinInference ==
    /\ Running /\ phase = "infer" /\ stack # <<>>
    /\ IsJoinPoint(prog.body, Head(stack).target)
    /\ IF DominatorCursor(Head(stack).target) = None
       THEN PanicApply(Head(stack).target, "unwrap") /\ UNCHANGED inf_envs
       ELSE /\ JoinInferenceApply(Head(stack).target,
                    IF Head(stack).target \in DOMAIN inf_envs
                    THEN Join(inf_envs[Head(stack).target], Head(stack).env)
                    ELSE [env |-> Head(stack).env, changed |-> TRUE])
            /\ UNCHANGED <<phase, snapshots, pcx>>
    /\ UNCHANGED <<prog, ret, shapes, chk_envs, kvars>>
    /\ UNCHANGED callvars

\* the loop of Check::check_goto_join_point over the parameters: the guard
\* of each parameter, instantiated, is an obligation of the arriving path
RECURSIVE PushParamHeads(_, _, _, _, _)
PushParamHeads(pc, cur, params, m, i) ==
    IF i > Len(params) THEN pc
    ELSE PushParamHeads(PushHead(pc, cur, SubstFree(params[i][3], m), "Goto"),
                        cur, params, m, i + 1)

\* a check_goto_join_point that answers true on every arrival
JoinCheckAlwaysFirst(target, first, made, pc) ==
    /\ pcx' = pc
    /\ phase' = PhaseAfter(pc, phase)
    /\ kvars' = made.kvars
    /\ chk_envs' = MapWith(chk_envs, target, [params |-> made.params, env |-> made.env])
    /\ shapes' = IF first THEN [bb \in DOMAIN shapes \ {target} |-> shapes[bb]] ELSE shapes
    /\ JoinApply(target, TRUE)
    /\ UNCHANGED snapshots

\* a check_goto_join_point that reads the shape and leaves it in the map
JoinCheckKeepShape(target, first, made, pc) ==
    /\ pcx' = pc
    /\ phase' = PhaseAfter(pc, phase)
    /\ kvars' = made.kvars
    /\ chk_envs' = MapWith(chk_envs, target, [params |-> made.params, env |-> made.env])
    /\ shapes' = shapes
    /\ JoinApply(target, first)
    /\ UNCHANGED snapshots

\* a check_goto_join_point that stores no basic-block environment
JoinCheckNoStore(target, first, made, pc) ==
    /\ pcx' = pc
    /\ phase' = PhaseAfter(pc, phase)
    /\ kvars' = made.kvars
    /\ chk_envs' = chk_envs
    /\ shapes' = IF first THEN [bb \in DOMAIN shapes \ {target} |-> shapes[bb]] ELSE shapes
    /\ JoinApply(target, first)
    /\ UNCHANGED snapshots

\* the end of Check::check_goto_join_point: pc is the context the obligations
\* of the arrival were pushed on
JoinCheckApply(target, first, made, pc) ==
    /\ pcx' = pc
    /\ phase' = PhaseAfter(pc, phase)
    /\ kvars' = made.kvars
    /\ chk_envs' = MapWith(chk_envs, target, [params |-> made.params, env |-> made.env])
    /\ shapes' = IF first THEN [bb \in DOMAIN shapes \ {target} |-> shapes[bb]] ELSE shapes
    /\ JoinApply(target, first)
    /\ UNCHANGED snapshots

\* Check::check_goto_join_point once the substitution is inferred
JoinCheckInferred(f, first, made, inf) ==
    IF ~inf.ok
    THEN /\ PanicApply(f.target, "inference failed")
         /\ UNCHANGED <<kvars, chk_envs, shapes>>
    ELSE JoinCheckApply(f.target, first, made,
            TransformInto(
                PushParamHeads([pcx EXCEPT !.names = made.names], f.cur, made.params,
                               inf.m, 1),
                f.cur, f.env, SubstBbEnv(made, inf.m)))

\* Check::check_goto_join_point once the basic-block environment is there
JoinCheckMade(f, first, made) ==
    JoinCheckInferred(f, first, made, InferFromBbEnv(f.env, made))

\* check_goto on a join point, checking mode: the closed environment is built
\* from the shape on the first arrival, and every arrival is checked against it
GotoJoinCheck ==
    /\ Running /\ phase = "check" /\ stack # <<>>
    /\ IsJoinPoint(prog.body, Head(stack).target)
    /\ IF DominatorCursor(Head(stack).target) = None
          \/ (Head(stack).target \notin DOMAIN chk_envs
              /\ Head(stack).target \notin DOMAIN shapes)
       THEN PanicApply(Head(stack).target, "unwrap") /\ UNCHANGED <<kvars, chk_envs, shapes>>
       ELSE JoinCheckMade(Head(stack), Head(stack).target \notin DOMAIN chk_envs,
                IF Head(stack).target \notin DOMAIN chk_envs
                THEN IntoBbEnv(pcx.names, kvars, shapes[Head(stack).target],
                               Head(stack).env,
                               ScopeAt(pcx, DominatorCursor(Head(stack).target)))
                ELSE [names  |-> pcx.names, kvars |-> kvars,
                      params |-> chk_envs[Head(stack).target].params,
                      env    |-> chk_envs[Head(stack).target].env])
    /\ UNCHANGED <<prog, ret, inf_envs>>
    /\ UNCHANGED callvars

\* the body of the worklist loop once the environment of the block is entered
PopUnpacked(bb, u) ==
    BasicBlockApply(bb, u.cur,
        CheckBasicBlock(u.pcx, u.cur, u.env, BlockData(prog.body, bb), bb \in visited, ret),
        <<>>, "pop")

PopEntered(bb, e) == PopUnpacked(bb, UnpackAll(e.pcx, e.cur, e.env))

\* Mode::enter_basic_block at cursor cur
EnterBasicBlock(cur, bb) ==
    IF phase = "infer"
    THEN [pcx |-> pcx, cur |-> cur, env |-> inf_envs[bb]]
    ELSE Enter(pcx, cur, chk_envs[bb])

\* one iteration of the worklist loop of run
PopQueue ==
    /\ Running /\ stack = <<>> /\ queue # <<>>
    /\ IF DominatorCursor(Head(queue)) = None
       THEN /\ phase' = "panic"
            /\ pcx' = Panic(pcx, "unwrap")
            /\ log' = Append(log, Event("panic", phase, Head(queue), 0))
            /\ UNCHANGED <<stack, visited, snapshots>>
       ELSE PopEntered(Head(queue), EnterBasicBlock(DominatorCursor(Head(queue)), Head(queue)))
    /\ queue' = Tail(queue)
    /\ UNCHANGED <<prog, ret, inf_envs, shapes, chk_envs, kvars>>
    /\ UNCHANGED callvars

Next ==
    \/ InferStart
    \/ GotoBasicBlock
    \/ GotoJoinInference
    \/ GotoJoinCheck
    \/ PopQueue
    \/ InferDone
    \/ CheckStart
    \/ CheckDone

Spec == Init /\ [][Next]_vars

\* the states in which a step of Next can be taken: ENABLED <<Next>>_vars
NextEnabled ==
    \/ phase \in {"init", "inferred"}
    \/ phase \in {"infer", "check"} /\ stack = <<>> /\ queue = <<>>
    \/ Running

\* run is one sequential computation, so a step that can be taken is taken:
\* weak fairness of Next, with its two parts written out (every step of Next
\* is a step that extends the history)
FairSpec ==
    Spec /\ ([]<>(~NextEnabled) \/ []<><<Len(log') > Len(log)>>_vars)

-----------------------------------------------------------------------------
(* ConstrGen::check_fn_call as a state machine: the entry (the unpacking of *)
(* the actuals, the instantiation of the signature, the requires clauses),  *)
(* one step per argument, and the solution of the evars.                    *)

\* Path::to_expr
PathExpr(path) == IF path[1] \in {"Local", "Abstract"} THEN ELoc(path) ELSE path

\* the requires clauses of kind Type whose path is path
RequiresOf(requires, path) ==
    SelectSeq(requires, LAMBDA c : c[1] = "Type" /\ c[2] = path)

\* an arm that subtypes and leaves the heap as it is
ArgKeep(s, env) == [s |-> s, env |-> env]

\* the arm (Ptr(Mut, path1), Ptr(Mut, path2)) of the loop over the arguments
ArgStrgPtr(s, cur, env, path1, path2, requires, tag) ==
    IF RequiresOf(requires, path2) = <<>>
    THEN ArgKeep([s EXCEPT !.rcx = Panic(@, "no entry found for key")], env)
    ELSE ArgKeep(InfSubtyping(UnifyExprs(s, PathExpr(path1), PathExpr(path2), FALSE),
                              cur, EnvGet(env, path1),
                              RequiresOf(requires, path2)[1][3], tag),
                 env)

\* a mutable-reference arm that checks the location and leaves its type
ArgMutRefNoUpdate(s, cur, env, path, bound, tag) ==
    [s   |-> InfSubtyping(s, cur, EnvGet(env, path), bound, tag),
     env |-> EnvBlock(env, path)]

\* the arm (Ptr(Mut, path), Ref(Mut, bound)): the type of the location must
\* be a subtype of bound; the location takes the type bound and is blocked
ArgMutRef(s, cur, env, path, bound, tag) ==
    [s   |-> InfSubtyping(s, cur, EnvGet(env, path), bound, tag),
     env |-> EnvBlock(EnvUpdate(env, path, bound), path)]

\* a shared-reference arm that also gives the location the type bound
ArgShrRefUpdate(s, cur, env, path, bound, tag) ==
    [s   |-> InfSubtyping(s, cur, EnvGet(env, path), bound, tag),
     env |-> EnvBlock(EnvUpdate(env, path, bound), path)]

\* the arm (Ptr(Shr, path), Ref(Shr, bound)): the location keeps its type
\* and is blocked
ArgShrRef(s, cur, env, path, bound, tag) ==
    [s   |-> InfSubtyping(s, cur, EnvGet(env, path), bound, tag),
     env |-> EnvBlock(env, path)]

\* the match of the loop over the arguments on (actual, formal)
ArgMatch(s, cur, env, actual, formal, requires, tag) ==
    CASE actual[1] = "Ptr" /\ actual[2] = "Mut" /\ formal[1] = "Ptr" /\ formal[2] = "Mut" ->
            ArgStrgPtr(s, cur, env, actual[3], formal[3], requires, tag)
      [] actual[1] = "Ptr" /\ actual[2] = "Mut" /\ formal[1] = "Ref" /\ formal[2] = "Mut" ->
            ArgMutRef(s, cur, env, actual[3], formal[3], tag)
      [] actual[1] = "Ptr" /\ actual[2] = "Shr" /\ formal[1] = "Ref" /\ formal[2] = "Shr" ->
            ArgShrRef(s, cur, env, actual[3], formal[3], tag)
      [] OTHER -> ArgKeep(InfSubtyping(s, cur, actual, formal, tag), env)

\* the match of the loop of check_mk_array on (ty, arr_ty): the two reference
\* arms of check_fn_call, and subtyping for every other pair
MkArrayMatch(s, cur, env, ty, arr_ty, tag) ==
    IF ty[1] = "Ptr" /\ ty[2] = "Mut" /\ arr_ty[1] = "Ref" /\ arr_ty[2] = "Mut"
    THEN ArgMutRef(s, cur, env, ty[3], arr_ty[3], tag)
    ELSE IF ty[1] = "Ptr" /\ ty[2] = "Shr" /\ arr_ty[1] = "Ref" /\ arr_ty[2] = "Shr"
    THEN ArgShrRef(s, cur, env, ty[3], arr_ty[3], tag)
    ELSE ArgKeep(InfSubtyping(s, cur, ty, arr_ty, tag), env)

\* one iteration of the loop over the arguments: the predicate of
\* formal.unconstr() is checked, then the arm of the match is taken
CheckArg(s, cur, env, actual, formal, requires, tag) ==
    ArgMatch(InfCheckPred(s, cur, ETrue, tag), cur, env, actual, formal, requires, tag)

\* the actual with its existential unpacked by binding b
RefUnpacked(b, bty) ==
    [pcx |-> b.pcx, cur |-> b.cur, ty |-> TRef("Mut", TIndexed(bty, EVar(b.fresh), FALSE))]

\* the first lines of check_fn_call on one actual: a mutable reference to an
\* existential is unpacked in rcx when the formal is &mut B[..]
UnpackActual(pc, cur, actual, formal) ==
    IF /\ actual[1] = "Ref" /\ actual[2] = "Mut"
       /\ formal[1] = "Ref" /\ formal[2] = "Mut" /\ formal[3][1] = "Indexed"
       /\ actual[3][1] = "Exists"
    THEN RefUnpacked(PushBinding(pc, cur, SortOf(actual[3][2]), actual[3][3]), actual[3][2])
    ELSE [pcx |-> pc, cur |-> cur, ty |-> actual]

\* a = [pcx, cur, actuals]: the actuals unpacked so far
UnpackedActual(a, u) == [pcx |-> u.pcx, cur |-> u.cur, actuals |-> Append(a.actuals, u.ty)]

RECURSIVE UnpackActuals(_, _, _, _)
UnpackActuals(a, actuals, formals, i) ==
    IF i > Len(actuals) \/ i > Len(formals) THEN a
    ELSE UnpackActuals(
            UnpackedActual(a, UnpackActual(a.pcx, a.cur, actuals[i], formals[i])),
            actuals, formals, i + 1)

\* the map from the refinement parameters of a signature to fresh evars
BinderEVars(binders) == [i \in 1 .. binders |-> EEVar(i)]

\* the inference context with one fresh evar per refinement parameter
RECURSIVE FreshEVars(_, _)
FreshEVars(s, n) == IF n = 0 THEN s ELSE FreshEVars(FreshEVar(s), n - 1)

\* the loop over the requires clauses: a predicate is checked, a type
\* constraint is kept for the arguments
RECURSIVE CheckRequires(_, _, _, _, _)
CheckRequires(s, cur, requires, i, tag) ==
    IF i > Len(requires) THEN s
    ELSE CheckRequires(
            IF requires[i][1] = "Pred" THEN InfCheckPred(s, cur, requires[i][2], tag) ELSE s,
            cur, requires, i + 1, tag)

\* replace_bvars_with on a requires or an ensures clause
InstantiateConstr(c, m) ==
    IF c[1] = "Pred" THEN <<"Pred", SubstLeaf(c[2], "SigVar", m)>>
    ELSE <<"Type", SubstPath(c[2], "SigVar", m), SubstLeafTy(c[3], "SigVar", m)>>

\* replace_evars on a requires or an ensures clause
SolveConstr(c, m) ==
    IF c[1] = "Pred" THEN <<"Pred", SubstLeaf(c[2], "EVar", m)>>
    ELSE <<"Type", SubstPath(c[2], "EVar", m), SubstLeafTy(c[3], "EVar", m)>>

\* the signature with its refinement parameters replaced by the evars m
InstantiateSig(sig, m) ==
    [requires |-> [i \in DOMAIN sig.requires |-> InstantiateConstr(sig.requires[i], m)],
     args     |-> [i \in DOMAIN sig.args |-> SubstLeafTy(sig.args[i], "SigVar", m)],
     ret      |-> SubstLeafTy(sig.ret, "SigVar", m),
     ensures  |-> [i \in DOMAIN sig.ensures |-> InstantiateConstr(sig.ensures[i], m)]]

\* the calls checked: the kind of the argument, the type of the location
\* (or of the value) passed, the type the callee declares, and whether debug
\* assertions are compiled in
CallLoc == LocLocal(1)

OtherLoc == LocLocal(2)

GtConst(c) == TExists(BInt, EBin("Gt", EBound, EConst(c)))

LocTys ==
    {TIndexed(BInt, EConst(c), FALSE) : c \in 0 .. MaxVal}
        \cup {GtConst(c) : c \in 0 .. MaxVal - 1}
        \cup {TIndexed(BInt, EVar(1), FALSE)}

\* a declared type with the number of refinement parameters it mentions
FormalTys ==
    {[ty |-> TIndexed(BInt, EConst(c), FALSE), binders |-> 0] : c \in 0 .. MaxVal}
        \cup {[ty |-> GtConst(c), binders |-> 0] : c \in 0 .. MaxVal - 1}
        \cup {[ty |-> TIndexed(BInt, ESig(1), TRUE), binders |-> 1],
              [ty |-> TExists(BInt, EBin("Gt", EBound, ESig(1))), binders |-> 1]}

CallKinds == {"mut", "shr", "strg", "val", "ref", "ptr"}

\* the arrays built: the element is a mutable pointer, a shared pointer, a
\* value or a mutable reference
ArrayKinds == {"arr_mut", "arr_shr", "arr_val", "arr_ref"}

\* GlobalEnv::refine_ty on the integer type: the refinement is the fresh
\* kvar, applied to the bound variable and to the variable in scope
RefinedInt == TExists(BInt, PKVar(1, <<EBound, EVar(1)>>))

Calls ==
    [kind : CallKinds, loc_ty : LocTys, formal : FormalTys, debug : BOOLEAN]
        \cup [kind : ArrayKinds, loc_ty : LocTys,
              formal : {[ty |-> RefinedInt, binders |-> 0]}, debug : BOOLEAN]

\* the actual of a call
CallActual(c) ==
    CASE c.kind \in {"mut", "strg", "arr_mut"} -> TPtr("Mut", CallLoc)
      [] c.kind \in {"shr", "ptr", "arr_shr"}  -> TPtr("Shr", CallLoc)
      [] c.kind \in {"ref", "arr_ref"}         -> TRef("Mut", c.loc_ty)
      [] OTHER                                 -> c.loc_ty

\* the formal of a call; in a strong signature the location is the
\* refinement parameter after those of the type
CallFormal(c) ==
    CASE c.kind \in {"mut", "ref", "arr_mut", "arr_ref"} -> TRef("Mut", c.formal.ty)
      [] c.kind \in {"shr", "arr_shr"} -> TRef("Shr", c.formal.ty)
      [] c.kind = "strg"           -> TPtr("Mut", ESig(c.formal.binders + 1))
      [] c.kind = "ptr"            -> TPtr("Shr", OtherLoc)
      [] OTHER                     -> c.formal.ty

\* the signature of the callee: a parameter of the type is required to be
\* non-negative and is the index of the result
CallSig(c) ==
    [binders  |-> c.formal.binders + (IF c.kind = "strg" THEN 1 ELSE 0),
     requires |-> (IF c.formal.binders = 1
                   THEN <<<<"Pred", EBin("Ge", ESig(1), EConst(0))>>>> ELSE <<>>)
                  \o (IF c.kind = "strg"
                      THEN <<<<"Type", ESig(c.formal.binders + 1), c.formal.ty>>>>
                      ELSE <<>>),
     args     |-> <<CallFormal(c)>>,
     ret      |-> IF c.formal.binders = 1 THEN TIndexed(BInt, ESig(1), FALSE)
                  ELSE TExists(BInt, ETrue),
     ensures  |-> (IF c.formal.binders = 1
                   THEN <<<<"Pred", EBin("Ge", ESig(1), EConst(0))>>>> ELSE <<>>)
                  \o (IF c.kind = "strg"
                      THEN <<<<"Type", ESig(c.formal.binders + 1), c.formal.ty>>>>
                      ELSE <<>>)]

\* the refinement context of the caller: one integer in scope
CallerRcx(b) == [pcx |-> b.pcx, cur |-> b.cur]

InitCall ==
    /\ prog \in {ProgReturnArg}
    /\ phase = "init"
    /\ stack = <<>>
    /\ queue = <<>>
    /\ visited = {}
    /\ snapshots = <<>>
    /\ pcx = PureCtxtNew
    /\ ret = [ret |-> TUninit, ensures |-> <<>>]
    /\ inf_envs = <<>>
    /\ shapes = <<>>
    /\ chk_envs = <<>>
    /\ kvars = 0
    /\ log = <<>>
    /\ call \in Calls
    /\ cpc = IF call.kind \in ArrayKinds THEN "arr_start" ELSE "start"
    /\ cenv = [bindings |-> (CallLoc :> call.loc_ty), blocked |-> {}]
    /\ rcx = CallerRcx(PushBinding(PureCtxtNew, CursorAtRoot, "int", ETrue))
    /\ infcx = <<>>
    /\ cfn = <<>>
    /\ cout = <<>>

\* the position after a step: a panic ends the call
CallPcAfter(pc, next) == IF pc.err # "" THEN "panic" ELSE next

\* the state after the entry of check_fn_call
EnterApply(u, s, fn) ==
    /\ rcx' = [pcx |-> s.rcx, cur |-> u.cur]
    /\ infcx' = s.ic
    /\ cfn' = [sig |-> fn, actuals |-> u.actuals, i |-> 1]
    /\ cpc' = CallPcAfter(s.rcx, "args")
    /\ UNCHANGED <<call, cenv, cout>>

EnterRequires(u, s, fn) ==
    EnterApply(u, CheckRequires(s, u.cur, fn.requires, 1, "Call"), fn)

EnterUnpacked(u, sig, debug) ==
    EnterRequires(u,
                  FreshEVars([rcx |-> u.pcx, ic |-> InferCtxtNew(u.pcx, u.cur, debug)],
                             sig.binders),
                  InstantiateSig(sig, BinderEVars(sig.binders)))

\* check_fn_call up to the loop over the arguments
CallEnter ==
    /\ cpc = "start"
    /\ EnterUnpacked(UnpackActuals([pcx |-> rcx.pcx, cur |-> rcx.cur, actuals |-> <<>>],
                                   <<CallActual(call)>>, CallSig(call).args, 1),
                     CallSig(call), call.debug)
    /\ UNCHANGED runvars

ArgApply(r) ==
    /\ rcx' = [rcx EXCEPT !.pcx = r.s.rcx]
    /\ infcx' = r.s.ic
    /\ cenv' = r.env
    /\ cfn' = [cfn EXCEPT !.i = @ + 1]
    /\ cpc' = CallPcAfter(r.s.rcx,
                          IF cfn.i = Len(cfn.sig.args) THEN "solve" ELSE "args")
    /\ UNCHANGED <<call, cout>>

\* one iteration of the loop over the arguments
CallArg ==
    /\ cpc = "args"
    /\ cfn.i <= Len(cfn.sig.args)
    /\ ArgApply(CheckArg([rcx |-> rcx.pcx, ic |-> infcx], rcx.cur, cenv,
                         cfn.actuals[cfn.i], cfn.sig.args[cfn.i],
                         cfn.sig.requires, "Call"))
    /\ UNCHANGED runvars

\* an end of check_fn_call that leaves the environment as it is
SolveApplyKeepEnv(sol) ==
    IF sol.ok
    THEN /\ cenv' = cenv
         /\ rcx' = [rcx EXCEPT !.pcx = RcxReplaceEVars(@, sol.m)]
         /\ cout' = [ret     |-> SubstLeafTy(cfn.sig.ret, "EVar", sol.m),
                     ensures |-> [i \in DOMAIN cfn.sig.ensures |->
                                     SolveConstr(cfn.sig.ensures[i], sol.m)]]
         /\ cpc' = "returned"
         /\ UNCHANGED <<call, infcx, cfn>>
    ELSE /\ cpc' = "error"
         /\ UNCHANGED <<call, cenv, rcx, infcx, cfn, cout>>

SolveApply(sol) ==
    IF sol.ok
    THEN /\ cenv' = EnvReplaceEVars(cenv, sol.m)
         /\ rcx' = [rcx EXCEPT !.pcx = RcxReplaceEVars(@, sol.m)]
         /\ cout' = [ret     |-> SubstLeafTy(cfn.sig.ret, "EVar", sol.m),
                     ensures |-> [i \in DOMAIN cfn.sig.ensures |->
                                     SolveConstr(cfn.sig.ensures[i], sol.m)]]
         /\ cpc' = "returned"
         /\ UNCHANGED <<call, infcx, cfn>>
    ELSE /\ cpc' = "error"
         /\ UNCHANGED <<call, cenv, rcx, infcx, cfn, cout>>

\* the end of check_fn_call: the evars are solved and replaced, or the call
\* fails with UnsolvedEvar
CallSolve ==
    /\ cpc = "solve"
    /\ SolveApply(Solve(infcx))
    /\ UNCHANGED runvars

\* check_mk_array up to the loop over the elements: an inference context
\* over the scope of rcx, and the refined type of the elements
MkArrayEnter ==
    /\ cpc = "arr_start"
    /\ infcx' = InferCtxtNew(rcx.pcx, rcx.cur, call.debug)
    /\ cfn' = [arr_ty |-> CallFormal(call), args |-> <<CallActual(call)>>, i |-> 1]
    /\ cpc' = "arr_args"
    /\ UNCHANGED <<call, cenv, rcx, cout>>
    /\ UNCHANGED runvars

MkArrayApply(r) ==
    /\ rcx' = [rcx EXCEPT !.pcx = r.s.rcx]
    /\ infcx' = r.s.ic
    /\ cenv' = r.env
    /\ cfn' = [cfn EXCEPT !.i = @ + 1]
    /\ cpc' = CallPcAfter(r.s.rcx,
                          IF cfn.i = Len(cfn.args) THEN "arr_solve" ELSE "arr_args")
    /\ UNCHANGED <<call, cout>>

\* one iteration of the loop over the elements
MkArrayArg ==
    /\ cpc = "arr_args"
    /\ cfn.i <= Len(cfn.args)
    /\ MkArrayApply(MkArrayMatch([rcx |-> rcx.pcx, ic |-> infcx], rcx.cur, cenv,
                                 cfn.args[cfn.i], cfn.arr_ty, "Call"))
    /\ UNCHANGED runvars

\* the end of check_mk_array: the evars are solved and replaced in rcx, and
\* the type of the array is returned, or the check fails with UnsolvedEvar
MkArraySolveApply(sol) ==
    IF sol.ok
    THEN /\ rcx' = [rcx EXCEPT !.pcx = RcxReplaceEVars(@, sol.m)]
         /\ cout' = [ret |-> TArray(cfn.arr_ty, Len(cfn.args)), ensures |-> <<>>]
         /\ cpc' = "built"
         /\ UNCHANGED <<call, cenv, infcx, cfn>>
    ELSE /\ cpc' = "error"
         /\ UNCHANGED <<call, cenv, rcx, infcx, cfn, cout>>

MkArraySolve ==
    /\ cpc = "arr_solve"
    /\ MkArraySolveApply(Solve(infcx))
    /\ UNCHANGED runvars

NextCall ==
    \/ CallEnter \/ CallArg \/ CallSolve
    \/ MkArrayEnter \/ MkArrayArg \/ MkArraySolve

SpecCall == InitCall /\ [][NextCall]_vars

-----------------------------------------------------------------------------
(* Subtyping and the multi-way branch applied to given types: the caller's  *)
(* context binds one integer n (the name 1); op tells what is applied:      *)
(* InferCtxt::subtyping followed by solve (as check_fn_call does),          *)
(* ConstraintGen::subtyping, or Checker::check_switch_int.                  *)

SubN == EVar(1)

\* the refinement indices of the given types
SubIdx == {EConst(0), EConst(1), SubN}

Positive(e) == EBin("Gt", e, EConst(0))

\* the existential types: int{v: v > 0} and int{v: n <= v}
SubExists == {TExists(BInt, Positive(EBound)), TExists(BInt, EBin("Le", SubN, EBound))}

\* the types compared inside references, tuples, arrays and constrained types
SubInner == {TIndexed(BInt, EConst(0), FALSE), TIndexed(BInt, SubN, FALSE),
             TExists(BInt, Positive(EBound))}

SubLeaves ==
    {TIndexed(BInt, e, FALSE) : e \in SubIdx}
        \cup {TIndexed(BIntTy(64), EConst(0), FALSE), TIndexed(BBool, EConst(1), FALSE)}
        \cup SubExists
        \cup {TUninit, TParam(0), TParam(1)}
        \cup {TPtr("Mut", CallLoc), TPtr("Mut", OtherLoc), TPtr("Shr", CallLoc)}

SubCompound ==
    {TRef(k, t) : k \in {"Mut", "Shr"}, t \in SubInner}
        \cup {TTuple(<<t>>) : t \in SubInner}
        \cup {TTuple(<<TIndexed(BInt, EConst(0), FALSE), t>>) : t \in SubInner}
        \cup {TArray(t, l) : t \in SubInner \ {TIndexed(BInt, SubN, FALSE)}, l \in 1 .. 2}
        \cup {TConstr(Positive(SubN), t) : t \in SubInner}
        \cup {TConstr(EBin("Le", EConst(0), SubN), TIndexed(BInt, SubN, FALSE))}
        \cup {TIndexed(BAdt(d, <<t>>), EConst(0), FALSE) : d \in 0 .. 3, t \in SubInner}
        \cup {TIndexed(BAdt(4, <<t, u>>), EConst(0), FALSE) :
                 t \in SubInner \ {TIndexed(BInt, SubN, FALSE)},
                 u \in SubInner \ {TExists(BInt, Positive(EBound))}}
        \cup {TExists(BAdt(d, <<TExists(BInt, Positive(EBound))>>),
                       EBin("Le", EConst(0), EBound)) : d \in 0 .. 1}

SubTys == SubLeaves \cup SubCompound

\* a declared type that mentions the refinement parameter of the enclosing
\* call, instantiated to the evar 1 of the root scope
SubEVarTys ==
    {TIndexed(BInt, EEVar(1), b) : b \in BOOLEAN}
        \cup {TRef(k, TIndexed(BInt, EEVar(1), TRUE)) : k \in {"Mut", "Shr"}}
        \cup {TTuple(<<TIndexed(BInt, EEVar(1), TRUE), t>>) :
                 t \in {TIndexed(BInt, EEVar(1), FALSE), TExists(BInt, Positive(EBound))}}
        \cup {TConstr(Positive(EEVar(1)), TIndexed(BInt, EEVar(1), TRUE))}

\* the declared type on the left: the second comparison of two mutable
\* references
SubEVarLeftTys == {TIndexed(BInt, EEVar(1), FALSE)}

\* the actual types compared with them
SubActualTys ==
    SubInner \cup {TRef(k, t) : k \in {"Mut", "Shr"}, t \in SubInner}
        \cup {TTuple(<<t, u>>) : t \in SubInner, u \in SubInner}
        \cup {TConstr(Positive(SubN), TIndexed(BInt, SubN, FALSE))}

\* the types of liquid-rust-typeck compared by ConstraintGen::subtyping
OldInner == {TRefine(BInt, EConst(0)), TRefine(BInt, SubN), TExists(BInt, Positive(EBound))}

OldTys ==
    OldInner
        \cup {TRefine(BBool, EConst(1)), TUninit, TParam(0), TParam(1),
               TStrgRef(CallLoc), TStrgRef(OtherLoc)}
        \cup {TWeakRef(t) : t \in OldInner} \cup {TShrRef(t) : t \in OldInner}
        \cup {TRefine(BAdt(d, <<t>>), EConst(0)) : d \in 0 .. 3, t \in OldInner}
        \cup {TRefine(BAdt(4, <<t, u>>), EConst(0)) :
                 t \in OldInner \ {TRefine(BInt, SubN)},
                 u \in OldInner \ {TExists(BInt, Positive(EBound))}}

\* the explicit branches of a switch: none, one, two
SwitchTargets == {<<>>, <<<<0, 1>>>>, <<<<0, 1>>, <<1, 2>>>>}

SubCalls ==
    [op : {"infer"}, ty1 : SubTys, ty2 : SubTys, evars : {0}, debug : BOOLEAN,
     targets : {<<>>}]
        \cup [op : {"infer"}, ty1 : SubActualTys, ty2 : SubEVarTys, evars : {1},
               debug : {TRUE}, targets : {<<>>}]
        \cup [op : {"infer"}, ty1 : SubEVarLeftTys, ty2 : SubInner \cup SubEVarLeftTys,
               evars : {1}, debug : {TRUE}, targets : {<<>>}]
        \cup [op : {"constr"}, ty1 : OldTys, ty2 : OldTys, evars : {0}, debug : BOOLEAN,
               targets : {<<>>}]
        \cup [op : {"switch"}, ty1 : {TRefine(BInt, SubN), TRefine(BBool, SubN), TUninit},
               ty2 : {TUninit}, evars : {0}, debug : {TRUE}, targets : SwitchTargets]

InitSub ==
    /\ prog \in {ProgReturnArg}
    /\ phase = "init"
    /\ stack = <<>>
    /\ queue = <<>>
    /\ visited = {}
    /\ snapshots = <<>>
    /\ pcx = PureCtxtNew
    /\ ret = [ret |-> TUninit, ensures |-> <<>>]
    /\ inf_envs = <<>>
    /\ shapes = <<>>
    /\ chk_envs = <<>>
    /\ kvars = 0
    /\ log = <<>>
    /\ call \in SubCalls
    /\ cpc = "start"
    /\ cenv = <<>>
    /\ rcx = CallerRcx(PushBinding(PureCtxtNew, CursorAtRoot, "int", ETrue))
    /\ infcx = <<>>
    /\ cfn = <<>>
    /\ cout = <<>>

\* the inference context of the enclosing call: its evars are made in the
\* scope of the caller
SubInfCtxt == FreshEVars([rcx |-> rcx.pcx, ic |-> InferCtxtNew(rcx.pcx, rcx.cur, call.debug)],
                         call.evars)

\* the outcome of InferCtxt::subtyping on the given types
SubOutcome == InfSubtyping(SubInfCtxt, rcx.cur, call.ty1, call.ty2, "Sub")

SubApply(s) ==
    /\ rcx' = [pcx |-> s.rcx, cur |-> rcx.cur]
    /\ infcx' = s.ic
    /\ cpc' = CallPcAfter(s.rcx, "solve")
    /\ UNCHANGED <<call, cenv, cfn, cout>>

\* infcx.subtyping(rcx, ty1, ty2)
SubInfer ==
    /\ cpc = "start" /\ call.op = "infer"
    /\ SubApply(SubOutcome)
    /\ UNCHANGED runvars

SubSolved(sol) ==
    IF sol.ok
    THEN /\ rcx' = [rcx EXCEPT !.pcx = RcxReplaceEVars(@, sol.m)]
         /\ cpc' = "returned"
    ELSE /\ cpc' = "error"
         /\ UNCHANGED rcx

\* rcx.replace_evars(&infcx.solve()?)
SubSolve ==
    /\ cpc = "solve" /\ call.op = "infer"
    /\ SubSolved(Solve(infcx))
    /\ UNCHANGED <<call, cenv, infcx, cfn, cout>>
    /\ UNCHANGED runvars

\* the outcome of ConstraintGen::subtyping on the given types
OldOutcome == Subtyping(rcx.pcx, rcx.cur, call.ty1, call.ty2, "Sub")

OldApply(pc) ==
    /\ rcx' = [pcx |-> pc, cur |-> rcx.cur]
    /\ cpc' = CallPcAfter(pc, "returned")

\* ConstraintGen::subtyping(ty1, ty2)
SubConstr ==
    /\ cpc = "start" /\ call.op = "constr"
    /\ OldApply(OldOutcome)
    /\ UNCHANGED <<call, cenv, infcx, cfn, cout>>
    /\ UNCHANGED runvars

\* the outcome of check_switch_int on a discriminant _1 of the given type
SwitchOutcome ==
    CheckSwitchInt(rcx.pcx, rcx.cur, (LocLocal(1) :> call.ty1), OpCopy(Place(1)),
                   call.targets, 0)

SwitchApply(r) ==
    /\ rcx' = [pcx |-> r.pcx, cur |-> rcx.cur]
    /\ stack' = r.frames
    /\ cpc' = CallPcAfter(r.pcx, "returned")

\* check_switch_int(env, cursor, discr, targets); the calls of check_goto it
\* makes are left pending
SubSwitch ==
    /\ cpc = "start" /\ call.op = "switch"
    /\ SwitchApply(SwitchOutcome)
    /\ UNCHANGED <<call, cenv, infcx, cfn, cout>>
    /\ UNCHANGED <<prog, phase, queue, visited, snapshots, pcx, ret,
                   inf_envs, shapes, chk_envs, kvars, log>>

NextSub == SubInfer \/ SubSolve \/ SubConstr \/ SubSwitch

SpecSub == InitSub /\ [][NextSub]_vars

-----------------------------------------------------------------------------
(* Folding and visiting of terms (flux-middle/src/rty/fold.rs).  A          *)
(* predicate is an expression, a hole, And(preds), Kvar(kvid, args, scope)  *)
(* or App(func, args); an index of an indexed type is an expression or a    *)
(* kvar; Binders(params, value) binds params in a type.  A folder is a      *)
(* record: WithHoles, ReplaceHoles with the sorts of the binder it is in    *)
(* and the sorts each call of mk_pred received, or a folder that overrides  *)
(* fold_expr to rename a free variable.  A fold returns [v, f]: the term    *)
(* rebuilt and the folder after it.                                         *)

PAnd(preds)                == <<"And", preds>>
PKvarOf(kvid, args, scope) == <<"Kvar", kvid, args, scope>>
PApp(func, args)           == <<"App", func, args>>
TBinders(params, value)    == <<"Binders", params, value>>

\* BaseTy::sorts: the sorts of the indices of a base type
BtySorts(bty) ==
    IF bty[1] = "Int" THEN <<"int">>
    ELSE IF bty[1] = "Bool" THEN <<"bool">>
    ELSE IF bty[1] = "Adt" THEN [i \in 1 .. bty[2] |-> "int"]
    ELSE <<>>

WithHolesFolder == [kind |-> "with_holes"]
ReplaceHolesFolder(sorts, made) == [kind |-> "replace_holes", sorts |-> sorts, made |-> made]
RenameFolder(from, to) == [kind |-> "rename", from |-> from, to |-> to]

Folded(v, f) == [v |-> v, f |-> f]

\* impl TypeFoldable for Expr: fold_with and super_fold_with
RECURSIVE FoldExpr(_, _)
FoldExpr(f, e) ==
    IF f.kind = "rename" /\ e = EVar(f.from) THEN EVar(f.to)
    ELSE IF e[1] = "Bin" THEN EBin(e[2], FoldExpr(f, e[3]), FoldExpr(f, e[4]))
    ELSE IF e[1] = "Not" THEN ENot(FoldExpr(f, e[2]))
    ELSE IF e[1] = "Neg" THEN ENeg(FoldExpr(f, e[2]))
    ELSE e

FoldExprs(f, es) == [i \in DOMAIN es |-> FoldExpr(f, es[i])]

\* impl TypeFoldable for KVar, super_fold_with: the arguments and the scope
FoldKVar(f, kvar) == PKvarOf(kvar[2], FoldExprs(f, kvar[3]), FoldExprs(f, kvar[4]))

\* the closure mk_pred of check_fn_call: a fresh kvar over the sorts given
MkPred(f) ==
    Folded(PKvarOf(Len(f.made) + 1, [i \in DOMAIN f.sorts |-> EBound], <<>>),
           [f EXCEPT !.made = Append(@, f.sorts)])

RECURSIVE FoldPred(_, _)
RECURSIVE FoldPreds(_, _, _)

\* impl TypeFoldable for List<Pred>: the predicates are folded in order;
\* r = [v, f] holds the predicates folded so far
FoldPredsNext(r, p, preds, i) ==
    FoldPreds(Folded(Append(r.v, p.v), p.f), preds, i + 1)

FoldPreds(r, preds, i) ==
    IF i > Len(preds) THEN r
    ELSE FoldPredsNext(r, FoldPred(r.f, preds[i]), preds, i)

AndFolded(r) == Folded(PAnd(r.v), r.f)

\* impl TypeFoldable for Pred, super_fold_with
SuperFoldPred(f, pred) ==
    IF pred[1] = "And" THEN AndFolded(FoldPreds(Folded(<<>>, f), pred[2], 1))
    ELSE IF pred[1] = "Kvar" THEN Folded(FoldKVar(f, pred), f)
    ELSE IF pred[1] = "Hole" THEN Folded(PHole, f)
    ELSE IF pred[1] = "App"
    THEN Folded(PApp(FoldExpr(f, pred[2]), FoldExprs(f, pred[3])), f)
    ELSE Folded(FoldExpr(f, pred), f)

\* Pred::fold_with: folder.fold_pred, which ReplaceHoles overrides
FoldPred(f, pred) ==
    IF f.kind = "replace_holes" /\ pred = PHole THEN MkPred(f)
    ELSE SuperFoldPred(f, pred)

\* a fold_binders of ReplaceHoles that goes on with the sorts of the binder
\* it left
LeftBindersKeepSorts(f, r) == r

\* the folder after the fold of a binder entered by folder f: the calls of
\* mk_pred made inside are made, the sorts are those of f
LeftBinders(f, r) ==
    IF f.kind = "replace_holes" THEN Folded(r.v, [r.f EXCEPT !.sorts = f.sorts]) ELSE r

\* the folder the value of a binder is folded with: ReplaceHoles overrides
\* fold_binders to take the parameters of the binder
InBinders(f, params) ==
    IF f.kind = "replace_holes" THEN [f EXCEPT !.sorts = params] ELSE f

\* Binders<Pred>::fold_with: folder.fold_binders
FoldBindersPred(f, params, pred) ==
    LeftBinders(f, FoldPred(InBinders(f, params), pred))

\* impl TypeFoldable for RefineArg
FoldRefineArg(f, arg) == IF arg[1] = "Kvar" THEN FoldKVar(f, arg) ELSE FoldExpr(f, arg)

\* Path::to_expr().fold_with(folder).to_path()
FoldPath(f, path) == IF path[1] \in {"Local", "Abstract"} THEN path ELSE FoldExpr(f, path)

RECURSIVE FoldTy(_, _)
RECURSIVE FoldTys(_, _, _)

FoldTysNext(r, t, tys, i) == FoldTys(Folded(Append(r.v, t.v), t.f), tys, i + 1)

\* the types of a list folded in order
FoldTys(r, tys, i) ==
    IF i > Len(tys) THEN r
    ELSE FoldTysNext(r, FoldTy(r.f, tys[i]), tys, i)

AdtFolded(did, r) == Folded(BAdt(did, r.v), r.f)
SliceFolded(r) == Folded(BSlice(r.v), r.f)

\* impl TypeFoldable for BaseTy, super_fold_with
FoldBaseTy(f, bty) ==
    IF bty[1] = "Adt" THEN AdtFolded(bty[2], FoldTys(Folded(<<>>, f), bty[3], 1))
    ELSE IF bty[1] = "Slice" THEN SliceFolded(FoldTy(f, bty[2]))
    ELSE Folded(bty, f)

IndexedFolded(b, idx, binder) ==
    Folded(TIndexed(b.v, FoldRefineArg(b.f, idx), binder), b.f)
ExistsPred(b, p) == Folded(TExists(b.v, p.v), p.f)
ExistsFolded(b, params, pred) == ExistsPred(b, FoldBindersPred(b.f, params, pred))
TupleFolded(r) == Folded(TTuple(r.v), r.f)
RefFolded(kind, r) == Folded(TRef(kind, r.v), r.f)
ConstrTy(p, t) == Folded(TConstr(p.v, t.v), t.f)
ConstrFolded(p, ty) == ConstrTy(p, FoldTy(p.f, ty))
BindersFolded(params, r) == Folded(TBinders(params, r.v), r.f)

\* impl TypeFoldable for Ty, super_fold_with
SuperFoldTy(f, ty) ==
    IF ty[1] = "Indexed" THEN IndexedFolded(FoldBaseTy(f, ty[2]), ty[3], ty[4])
    ELSE IF ty[1] = "Exists"
    THEN ExistsFolded(FoldBaseTy(f, ty[2]), BtySorts(ty[2]), ty[3])
    ELSE IF ty[1] = "Tuple" THEN TupleFolded(FoldTys(Folded(<<>>, f), ty[2], 1))
    ELSE IF ty[1] = "Ptr" THEN Folded(TPtr(ty[2], FoldPath(f, ty[3])), f)
    ELSE IF ty[1] = "Ref" THEN RefFolded(ty[2], FoldTy(f, ty[3]))
    ELSE IF ty[1] = "Constr" THEN ConstrFolded(FoldPred(f, ty[2]), ty[3])
    ELSE IF ty[1] = "Binders"
    THEN BindersFolded(ty[2], LeftBinders(f, FoldTy(InBinders(f, ty[2]), ty[3])))
    ELSE Folded(ty, f)

\* the override of fold_ty in WithHoles: an indexed or an existential type
\* becomes an existential type of the folded base type with a hole
HoleOver(b) == Folded(TExists(b.v, PHole), b.f)

\* Ty::fold_with: folder.fold_ty
FoldTy(f, ty) ==
    IF f.kind = "with_holes" /\ ty[1] \in {"Indexed", "Exists"}
    THEN HoleOver(FoldBaseTy(f, ty[2]))
    ELSE SuperFoldTy(f, ty)

\* TypeFoldable::with_holes
WithHoles(ty) == FoldTy(WithHolesFolder, ty).v

\* TypeFoldable::replace_holes: the term, and in f.made the sorts each call
\* of mk_pred received
ReplaceHoles(ty) == FoldTy(ReplaceHolesFolder(<<>>, <<>>), ty)

\* the visitor CollectFreeVars over the constituents super_visit_with
\* reaches
RECURSIVE VisitExpr(_)
VisitExpr(e) ==
    IF e[1] = "Var" THEN {e[2]}
    ELSE IF e[1] = "Bin" THEN VisitExpr(e[3]) \cup VisitExpr(e[4])
    ELSE IF e[1] \in {"Not", "Neg"} THEN VisitExpr(e[2])
    ELSE {}

VisitExprs(es) == UNION {VisitExpr(es[i]) : i \in DOMAIN es}

\* a visit of a kvar that reaches the scope as well
VisitKVarAndScope(kvar) == VisitExprs(kvar[3]) \cup VisitExprs(kvar[4])

\* impl TypeFoldable for KVar, super_visit_with: the arguments
VisitKVar(kvar) == VisitExprs(kvar[3])

RECURSIVE VisitPred(_)
VisitPred(pred) ==
    IF pred[1] = "And" THEN UNION {VisitPred(pred[2][i]) : i \in DOMAIN pred[2]}
    ELSE IF pred[1] = "Kvar" THEN VisitKVar(pred)
    ELSE IF pred[1] = "Hole" THEN {}
    ELSE IF pred[1] = "App" THEN VisitExpr(pred[2]) \cup VisitExprs(pred[3])
    ELSE VisitExpr(pred)

VisitRefineArg(arg) == IF arg[1] = "Kvar" THEN VisitKVar(arg) ELSE VisitExpr(arg)

VisitPath(path) == IF path[1] \in {"Local", "Abstract"} THEN {} ELSE VisitExpr(path)

RECURSIVE VisitTy(_)

VisitBaseTy(bty) ==
    IF bty[1] = "Adt" THEN UNION {VisitTy(bty[3][i]) : i \in DOMAIN bty[3]}
    ELSE IF bty[1] = "Slice" THEN VisitTy(bty[2])
    ELSE {}

\* impl TypeFoldable for Ty, super_visit_with
VisitTy(ty) ==
    IF ty[1] = "Indexed" THEN VisitBaseTy(ty[2]) \cup VisitRefineArg(ty[3])
    ELSE IF ty[1] = "Exists" THEN VisitBaseTy(ty[2]) \cup VisitPred(ty[3])
    ELSE IF ty[1] = "Tuple" THEN UNION {VisitTy(ty[2][i]) : i \in DOMAIN ty[2]}
    ELSE IF ty[1] = "Ref" THEN VisitTy(ty[3])
    ELSE IF ty[1] = "Ptr" THEN VisitPath(ty[3])
    ELSE IF ty[1] = "Constr" THEN VisitPred(ty[2]) \cup VisitTy(ty[3])
    ELSE IF ty[1] = "Binders" THEN VisitTy(ty[3])
    ELSE {}

\* TypeFoldable::fvars
FVars(ty) == VisitTy(ty)

\* the terms folded and visited
FoldKVars ==
    {PKvarOf(0, <<EBound>>, <<EVar(1)>>),
     PKvarOf(0, <<EBound, EVar(2)>>, <<EVar(1)>>),
     PKvarOf(0, <<EVar(1)>>, <<EVar(1)>>)}

FoldPredicates ==
    {PHole, ETrue, EBin("Gt", EBound, EVar(2)), PApp(EVar(3), <<EBound>>),
     PAnd(<<PHole, EBin("Gt", EBound, EVar(2))>>), PAnd(<<PHole, PHole>>)}
        \cup FoldKVars

FoldLeaves ==
    {TIndexed(BInt, EVar(1), FALSE), TIndexed(BInt, EConst(0), FALSE),
     TIndexed(BInt, PKvarOf(0, <<EVar(2)>>, <<EVar(1)>>), FALSE),
     TUninit, TPtr("Mut", EVar(3)), TPtr("Mut", LocLocal(1))}
        \cup {TExists(BInt, p) : p \in FoldPredicates}

FoldInner ==
    {TIndexed(BInt, EVar(1), FALSE), TExists(BInt, PHole),
     TExists(BInt, EBin("Gt", EBound, EVar(2))), TUninit,
     TConstr(PHole, TUninit), TConstr(EBin("Gt", EVar(1), EConst(0)), TExists(BBool, PHole))}

FoldTerms ==
    FoldLeaves
        \cup {TRef("Mut", t) : t \in FoldLeaves}
        \cup {TConstr(p, t) : p \in {PHole, EBin("Gt", EVar(1), EConst(0))},
                              t \in FoldInner}
        \cup {TIndexed(BAdt(2, <<t>>), EVar(2), FALSE) : t \in FoldInner}
        \cup {TExists(BAdt(2, <<t>>), p) : t \in FoldInner,
                                          p \in {PHole, EBin("Gt", EBound, EVar(2))}}
        \cup {TIndexed(BSlice(t), EConst(0), FALSE) : t \in FoldInner}
        \cup {TTuple(<<t, u>>) : t \in {TExists(BInt, PHole), TUninit}, u \in FoldInner}
        \cup {TBinders(<<"bool">>, TTuple(<<t, u>>)) :
                t \in {TExists(BInt, PHole), TUninit},
                u \in {TConstr(PHole, TUninit), TExists(BAdt(2, <<TConstr(PHole, TUninit)>>),
                                                      PHole)}}

FoldOps == {"fvars", "with_holes", "replace_holes"}

FoldCalls == [op : FoldOps, t : FoldTerms]

InitFold ==
    /\ prog \in {ProgReturnArg}
    /\ phase = "init"
    /\ stack = <<>>
    /\ queue = <<>>
    /\ visited = {}
    /\ snapshots = <<>>
    /\ pcx = PureCtxtNew
    /\ ret = [ret |-> TUninit, ensures |-> <<>>]
    /\ inf_envs = <<>>
    /\ shapes = <<>>
    /\ chk_envs = <<>>
    /\ kvars = 0
    /\ log = <<>>
    /\ call \in FoldCalls
    /\ cpc = "start"
    /\ cenv = <<>>
    /\ rcx = <<>>
    /\ infcx = <<>>
    /\ cfn = <<>>
    /\ cout = <<>>

\* t.fvars()
FoldFVars ==
    /\ cpc = "start" /\ call.op = "fvars"
    /\ cout' = FVars(call.t)
    /\ cpc' = "returned"
    /\ UNCHANGED <<call, cenv, rcx, infcx, cfn>>
    /\ UNCHANGED runvars

\* t.with_holes(), and with_holes() of its result
FoldWithHoles ==
    /\ call.op = "with_holes"
    /\ \/ cpc = "start" /\ cout' = WithHoles(call.t) /\ cpc' = "returned"
       \/ cpc = "returned" /\ cout' = WithHoles(cout) /\ cpc' = "again"
    /\ UNCHANGED <<call, cenv, rcx, infcx, cfn>>
    /\ UNCHANGED runvars

\* t.replace_holes(mk_pred): cfn holds the sorts the calls of mk_pred received
FoldReplaceHoles ==
    /\ cpc = "start" /\ call.op = "replace_holes"
    /\ cout' = ReplaceHoles(call.t).v
    /\ cfn' = ReplaceHoles(call.t).f.made
    /\ cpc' = "returned"
    /\ UNCHANGED <<call, cenv, rcx, infcx>>
    /\ UNCHANGED runvars

NextFold == FoldFVars \/ FoldWithHoles \/ FoldReplaceHoles

SpecFold == InitFold /\ [][NextFold]_vars

-----------------------------------------------------------------------------
(* GlobalEnv::ignored (flux-middle/src/global_env.rs): the walk along the   *)
(* parent chain of a definition to the first explicit ignore annotation.    *)
(* call holds the definition tree (parent, 0 = no parent), the annotations  *)
(* (check_item, a partial map) and the def_id asked; cfn is the loop        *)
(* variable def_id.                                                         *)

\* number of items of the generated definition trees
MaxItems == 4

\* the definition trees: item 1 is the crate root, every other item has an
\* earlier item as its parent
ItemTrees ==
    {p \in [1 .. MaxItems -> 0 .. MaxItems] :
        p[1] = 0 /\ \A i \in 2 .. MaxItems : p[i] \in 1 .. i - 1}

\* the explicit annotations: a map from some of the items to Ignored
ItemIgnores ==
    UNION {[S -> {"Yes", "No"}] : S \in SUBSET (1 .. MaxItems)}

\* ignore01.rs: 1 the crate, 2 assert, 3 test, 4 mod foo (ignored), 5 mod goo,
\* 6 mod coo, 7 test_map, 8 test_crap
Ignore01Parents == <<0, 1, 1, 1, 4, 5, 6, 4>>

Ignore01Ignores == [d \in {4} |-> "Yes"]

IgnoreCalls ==
    {[parent |-> p, ignores |-> g, def_id |-> d] :
        p \in ItemTrees, g \in ItemIgnores, d \in 1 .. MaxItems}
    \cup {[parent |-> Ignore01Parents, ignores |-> Ignore01Ignores, def_id |-> d] :
            d \in DOMAIN Ignore01Parents}

\* tcx.opt_local_parent(def_id), 0 = None
OptLocalParent(c, def_id) == c.parent[def_id]

\* one iteration of the loop: with the first annotation found the walk ends
IgnoredIterNoWalk(c, def_id) ==
    IF def_id \in DOMAIN c.ignores
    THEN [done |-> TRUE, v |-> c.ignores[def_id]]
    ELSE [done |-> TRUE, v |-> "No"]

IgnoredIter(c, def_id) ==
    IF def_id \in DOMAIN c.ignores
    THEN [done |-> TRUE, v |-> c.ignores[def_id]]
    ELSE IF OptLocalParent(c, def_id) # 0
    THEN [done |-> FALSE, v |-> OptLocalParent(c, def_id)]
    ELSE [done |-> TRUE, v |-> "No"]

\* genv.ignored(def_id)
RECURSIVE IgnoredFrom(_, _)
IgnoredFrom(c, def_id) ==
    IF IgnoredIter(c, def_id).done THEN IgnoredIter(c, def_id).v
    ELSE IgnoredFrom(c, IgnoredIter(c, def_id).v)

InitIgnore ==
    /\ prog \in {ProgReturnArg}
    /\ phase = "init"
    /\ stack = <<>>
    /\ queue = <<>>
    /\ visited = {}
    /\ snapshots = <<>>
    /\ pcx = PureCtxtNew
    /\ ret = [ret |-> TUninit, ensures |-> <<>>]
    /\ inf_envs = <<>>
    /\ shapes = <<>>
    /\ chk_envs = <<>>
    /\ kvars = 0
    /\ log = <<>>
    /\ call \in IgnoreCalls
    /\ cpc = "loop"
    /\ cenv = <<>>
    /\ rcx = <<>>
    /\ infcx = <<>>
    /\ cfn = call.def_id
    /\ cout = <<>>

\* one iteration of the loop of ignored
IgnoredLoop ==
    /\ cpc = "loop"
    /\ IF IgnoredIter(call, cfn).done
       THEN cout' = IgnoredIter(call, cfn).v /\ cpc' = "returned" /\ cfn' = cfn
       ELSE cfn' = IgnoredIter(call, cfn).v /\ UNCHANGED <<cout, cpc>>
    /\ UNCHANGED <<call, cenv, rcx, infcx>>
    /\ UNCHANGED runvars

NextIgnore == IgnoredLoop

SpecIgnore == InitIgnore /\ [][NextIgnore]_vars

\* the loop goes on while it can
FairSpecIgnore == SpecIgnore /\ WF_vars(NextIgnore)

-----------------------------------------------------------------------------
(* Tag and Tag::span (flux-refineck/src/constraint_gen.rs): call holds the  *)
(* tag, cout the Option<Span> returned.                                     *)

\* the positions of the source text a span lies between
MaxPos == 2

Spans == {s \in [lo : 0 .. MaxPos, hi : 0 .. MaxPos] : s.lo <= s.hi}

SpanSome(span) == <<"Some", span>>

SpanNone == <<"None">>

\* enum Tag: the variants with the types of their fields
TagDecl ==
    ("Call" :> <<"Span">>)
        @@ ("Assign" :> <<"Span">>)
        @@ ("Ret" :> <<>>)
        @@ ("RetAt" :> <<"Span">>)
        @@ ("Fold" :> <<"Span">>)
        @@ ("Assert" :> <<"str", "Span">>)
        @@ ("Div" :> <<"Span">>)
        @@ ("Rem" :> <<"Span">>)
        @@ ("Goto" :> <<"Option<Span>", "BasicBlock">>)
        @@ ("Overflow" :> <<"Span">>)
        @@ ("Other" :> <<>>)

\* the values of a field type
FieldValues(type) ==
    IF type = "Span" THEN Spans
    ELSE IF type = "str" THEN {"assertion failed", "attempt to divide by zero"}
    ELSE IF type = "Option<Span>" THEN {SpanNone} \cup {SpanSome(s) : s \in Spans}
    ELSE 1 .. NumBlocks

\* the tags of a variant: the variant, then the values of its fields
TagsOf(v) ==
    IF Len(TagDecl[v]) = 0 THEN {<<v, <<>>>>}
    ELSE IF Len(TagDecl[v]) = 1
    THEN {<<v, <<x>>>> : x \in FieldValues(TagDecl[v][1])}
    ELSE {<<v, <<x, y>>>> : x \in FieldValues(TagDecl[v][1]),
                            y \in FieldValues(TagDecl[v][2])}

Tags == UNION {TagsOf(v) : v \in DOMAIN TagDecl}

TagVariant(tag) == tag[1]

TagFields(tag) == tag[2]

\* tag.span() with an arm for every variant that has a span
TagSpanEvery(tag) ==
    IF TagVariant(tag) \in {"Call", "Assign", "RetAt", "Fold", "Div", "Rem", "Overflow"}
    THEN SpanSome(TagFields(tag)[1])
    ELSE IF TagVariant(tag) = "Assert" THEN SpanSome(TagFields(tag)[2])
    ELSE IF TagVariant(tag) = "Goto" /\ TagFields(tag)[1] # SpanNone THEN TagFields(tag)[1]
    ELSE SpanNone

\* tag.span()
TagSpan(tag) ==
    IF TagVariant(tag) \in {"Call", "Assign", "RetAt", "Fold", "Div", "Rem"}
    THEN SpanSome(TagFields(tag)[1])
    ELSE IF TagVariant(tag) = "Assert" THEN SpanSome(TagFields(tag)[2])
    ELSE IF TagVariant(tag) = "Goto" /\ TagFields(tag)[1] # SpanNone
    THEN SpanSome(TagFields(tag)[1][2])
    ELSE SpanNone

InitTag ==
    /\ prog \in {ProgReturnArg}
    /\ phase = "init"
    /\ stack = <<>>
    /\ queue = <<>>
    /\ visited = {}
    /\ snapshots = <<>>
    /\ pcx = PureCtxtNew
    /\ ret = [ret |-> TUninit, ensures |-> <<>>]
    /\ inf_envs = <<>>
    /\ shapes = <<>>
    /\ chk_envs = <<>>
    /\ kvars = 0
    /\ log = <<>>
    /\ call \in Tags
    /\ cpc = "start"
    /\ cenv = <<>>
    /\ rcx = <<>>
    /\ infcx = <<>>
    /\ cfn = <<>>
    /\ cout = <<>>

\* tag.span()
TagSpanCall ==
    /\ cpc = "start"
    /\ cout' = TagSpan(call)
    /\ cpc' = "returned"
    /\ UNCHANGED <<call, cenv, rcx, infcx, cfn>>
    /\ UNCHANGED runvars

NextTag == TagSpanCall

SpecTag == InitTag /\ [][NextTag]_vars

-----------------------------------------------------------------------------
(* Checker::check_binary_op on its own (liquid-rust-typeck/src/checker.rs): *)
(* call holds the operator, the two operands and the types of the locals    *)
(* _1 and _2; cenv is the environment, rcx the context and the cursor, cout *)
(* the type returned.                                                       *)

BinOps == {"Eq", "Ne", "Add", "Sub", "Mul", "Div", "Gt", "Lt", "Le"}

ArithOps == {"Add", "Sub", "Mul", "Div"}

\* the types of the locals; name 1 is bound in the context
BinOpTys ==
    {TRefine(BInt, EVar(1)), TRefine(BInt, EConst(0)),
     TRefine(BUint, EVar(1)), TRefine(BBool, EConst(1))}

BinOpEnv(tys) ==
    InsertLoc(InsertLoc(TypeEnvNew, LocLocal(1), tys[1]), LocLocal(2), tys[2])

\* the base type of an operand in the environment of the call
OperandBase(c, operand) == CheckOperand(BinOpEnv(c.tys), operand).ty[2]

\* the calls rustc has typed: operands of one base type, integers for the
\* arithmetic operators and the comparisons
BinOpCalls ==
    {c \in [bin_op : BinOps,
            op1 : {OpCopy(Place(1)), OpMove(Place(1)), OpInt(2)},
            op2 : {OpCopy(Place(2)), OpMove(Place(2)), OpInt(0), OpBool(1)},
            tys : BinOpTys \X BinOpTys] :
        /\ OperandBase(c, c.op1) = OperandBase(c, c.op2)
        /\ c.bin_op \notin {"Eq", "Ne"} => OperandBase(c, c.op1) \in {BInt, BUint}}

InitBinOp ==
    /\ prog \in {ProgReturnArg}
    /\ phase = "init"
    /\ stack = <<>>
    /\ queue = <<>>
    /\ visited = {}
    /\ snapshots = <<>>
    /\ pcx = PureCtxtNew
    /\ ret = [ret |-> TUninit, ensures |-> <<>>]
    /\ inf_envs = <<>>
    /\ shapes = <<>>
    /\ chk_envs = <<>>
    /\ kvars = 0
    /\ log = <<>>
    /\ call \in BinOpCalls
    /\ cpc = "start"
    /\ cenv = BinOpEnv(call.tys)
    /\ rcx = [pcx |-> PushBinding(PureCtxtNew, CursorAtRoot, "int", ETrue).pcx,
              cur |-> PushBinding(PureCtxtNew, CursorAtRoot, "int", ETrue).cur]
    /\ infcx = <<>>
    /\ cfn = <<>>
    /\ cout = <<>>

BinaryOpApply(r) ==
    /\ rcx' = [rcx EXCEPT !.pcx = r.pcx]
    /\ cenv' = r.env
    /\ cout' = r.ty
    /\ cpc' = "returned"

\* self.check_binary_op(env, cursor, bin_op, op1, op2)
BinaryOpCall ==
    /\ cpc = "start"
    /\ BinaryOpApply(CheckBinaryOp(rcx.pcx, rcx.cur, cenv, call.bin_op, call.op1, call.op2))
    /\ UNCHANGED <<call, infcx, cfn>>
    /\ UNCHANGED runvars

NextBinOp == BinaryOpCall

SpecBinOp == InitBinOp /\ [][NextBinOp]_vars

-----------------------------------------------------------------------------
(* Checker::check_assert on its own (liquid-rust-typeck/src/checker.rs):    *)
(* call holds the condition, the expected value, the target and the type of *)
(* the local _1; cout is the check_goto the handler ends with.              *)

\* the types of the local the condition reads; name 1 is bound in the context
AssertTys ==
    {TRefine(BBool, EBin("Lt", EVar(1), EConst(2))),
     TRefine(BBool, EBin("Eq", EVar(1), EConst(0))),
     TRefine(BBool, ENot(EBin("Gt", EVar(1), EConst(1)))),
     TRefine(BBool, EConst(1))}

AssertCalls ==
    [cond : {OpCopy(Place(1)), OpMove(Place(1)), OpBool(0), OpBool(1)},
     expected : BOOLEAN,
     target : 0 .. NumBlocks - 1,
     ty : AssertTys]

InitAssert ==
    /\ prog \in {ProgReturnArg}
    /\ phase = "init"
    /\ stack = <<>>
    /\ queue = <<>>
    /\ visited = {}
    /\ snapshots = <<>>
    /\ pcx = PureCtxtNew
    /\ ret = [ret |-> TUninit, ensures |-> <<>>]
    /\ inf_envs = <<>>
    /\ shapes = <<>>
    /\ chk_envs = <<>>
    /\ kvars = 0
    /\ log = <<>>
    /\ call \in AssertCalls
    /\ cpc = "start"
    /\ cenv = InsertLoc(TypeEnvNew, LocLocal(1), call.ty)
    /\ rcx = CallerRcx(PushBinding(PureCtxtNew, CursorAtRoot, "int", ETrue))
    /\ infcx = <<>>
    /\ cfn = <<>>
    /\ cout = <<>>

AssertApply(r) ==
    /\ rcx' = [rcx EXCEPT !.pcx = r.pcx]
    /\ cout' = r.frames
    /\ cenv' = IF r.frames = <<>> THEN cenv ELSE r.frames[1].env
    /\ cpc' = "returned"

\* self.check_assert(env, cursor, cond, expected, target), up to its check_goto
AssertCall ==
    /\ cpc = "start"
    /\ AssertApply(CheckAssert(rcx.pcx, rcx.cur, cenv, call.cond, call.expected,
                               call.target))
    /\ UNCHANGED <<call, infcx, cfn>>
    /\ UNCHANGED runvars

NextAssert == AssertCall

SpecAssert == InitAssert /\ [][NextAssert]_vars

-----------------------------------------------------------------------------
(* The constraint of a context and its solution (the fixpoint solver).      *)
(* A head with the bindings and assumptions on its path is a clause; the    *)
(* refinement variables range over the values below; a kvar is solved by    *)
(* the least set of tuples its clauses force; an obligation fails when a    *)
(* valuation satisfies the assumptions of its path and not the head.        *)

IntVals == (0 - MaxVal) .. MaxVal

ValsOf(sort) == IF sort = "bool" THEN 0 .. 1 ELSE IntVals

Bit(b) == IF b THEN 1 ELSE 0

\* the value of an expression under a valuation and a solution of the
\* kvars; truth values are 1 and 0
RECURSIVE Eval(_, _, _)
EvalBin(op, a, b) ==
    CASE op = "Add" -> a + b
      [] op = "Sub" -> a - b
      [] op = "Mul" -> a * b
      [] op = "Div" -> IF b > 0 THEN a \div b ELSE 0
      [] op = "Eq"  -> Bit(a = b)
      [] op = "Ne"  -> Bit(a # b)
      [] op = "Gt"  -> Bit(a > b)
      [] op = "Ge"  -> Bit(a >= b)
      [] op = "Lt"  -> Bit(a < b)
      [] op = "Le"  -> Bit(a <= b)
      [] op = "And" -> Bit(a = 1 /\ b = 1)
      [] OTHER      -> Bit(a = 1 \/ b = 1)

Eval(e, val, sol) ==
    CASE e[1] = "Const" -> e[2]
      [] e[1] = "Var"   -> IF e[2] \in DOMAIN val THEN val[e[2]] ELSE 0
      [] e[1] = "Bin"   -> EvalBin(e[2], Eval(e[3], val, sol), Eval(e[4], val, sol))
      [] e[1] = "Not"   -> 1 - Eval(e[2], val, sol)
      [] e[1] = "Neg"   -> 0 - Eval(e[2], val, sol)
      [] e[1] = "KVar"  -> Bit([i \in DOMAIN e[3] |-> Eval(e[3][i], val, sol)] \in sol[e[2]])
      [] OTHER          -> 1

\* the heads of a context that are still below the root
HeadsOf(pc) ==
    {h \in DOMAIN pc.nodes : pc.nodes[h][2] = "Head" /\ PathTo(pc.nodes, h) # <<>>}

\* the valuations of the names bound on a path
Valuations(nodes, bs) ==
    {val \in [{nodes[bs[i]][3] : i \in DOMAIN bs} -> IntVals] :
        \A i \in DOMAIN bs : val[nodes[bs[i]][3]] \in ValsOf(nodes[bs[i]][4])}

\* the valuations of the path of head h that satisfy every assumption on it
Models(nodes, path, sol) ==
    {val \in Valuations(nodes, BindingsOn(nodes, path)) :
        \A i \in DOMAIN path :
            nodes[path[i]][2] \in {"Binding", "Pred"} => Eval(nodes[path[i]][5], val, sol) = 1}

\* the tuples the clauses of kvar k force under solution sol
Forced(pc, sol, k) ==
    UNION {{[i \in DOMAIN pc.nodes[h][5][3] |-> Eval(pc.nodes[h][5][3][i], val, sol)] :
                val \in Models(pc.nodes, PathTo(pc.nodes, h), sol)} :
           h \in {g \in HeadsOf(pc) : pc.nodes[g][5][1] = "KVar" /\ pc.nodes[g][5][2] = k}}

RECURSIVE LeastFrom(_, _)
LeastStep(pc, sol, next) == IF next = sol THEN sol ELSE LeastFrom(pc, next)

LeastFrom(pc, sol) ==
    LeastStep(pc, sol, [k \in DOMAIN sol |-> sol[k] \cup Forced(pc, sol, k)])

\* the least solution of the nk kvars of a context
LeastSolution(pc, nk) == LeastFrom(pc, [k \in 1 .. nk |-> {}])

\* the obligations that fail under a solution
FailingUnder(pc, sol) ==
    {h \in HeadsOf(pc) :
        /\ pc.nodes[h][5][1] # "KVar"
        /\ \E val \in Models(pc.nodes, PathTo(pc.nodes, h), sol) :
              Eval(pc.nodes[h][5], val, sol) # 1}

\* the obligations the solver reports as failing
FailingHeads(pc, nk) == FailingUnder(pc, LeastSolution(pc, nk))

\* the provenance of the failing obligations
FailingTags(pc, nk) == {pc.nodes[h][4] : h \in FailingHeads(pc, nk)}

-----------------------------------------------------------------------------
(* Properties *)

\* the number of events of the history equal to e
CountEvents(e) == Cardinality({i \in DOMAIN log : log[i] = e})

\* the height of the lattice of environments of a procedure: a location is
\* weakened at most twice, to an existential and to uninitialized
ShapeHeight(p) == 2 * (p.locals + 1 + Len(p.sig.requires))

\* C1: Checker::run terminates in inference and in checking mode: the run of
\* both passes ends (the worklist is empty, or the run was aborted), and no
\* join block is queued by the inference pass more often than once for its
\* first environment and once for each change of the stored environment, of
\* which there are at most as many as the lattice of environments is high.
C1_Termination ==
    /\ <>(phase \in {"done", "panic", "error"})
    /\ [](\A bb \in BlocksOf(prog.body) :
            CountEvents(Event("join", "infer", bb, 1)) <= 1 + ShapeHeight(prog))

\* a run of both passes has ended in which a join block was queued again
\* because the join changed its environment, and then reached without change
C1_Witness ==
    /\ phase = "done"
    /\ \E bb \in BlocksOf(prog.body) :
          /\ CountEvents(Event("join", "infer", bb, 1)) >= 2
          /\ CountEvents(Event("join", "infer", bb, 0)) >= 1


\* a step that handles an arrival at join point Head(stack).target in pass p
\* and does not abort the run
JoinArrival(p) ==
    /\ phase = p /\ phase' = p /\ stack # <<>>
    /\ IsJoinPoint(prog.body, Head(stack).target)

\* C2: in inference mode an arrival at a join block through check_goto never
\* executes the body of the block (no snapshot is taken, the context is left
\* alone, nothing is dispatched).  If no environment is stored for the block,
\* the arriving environment is stored and the block is queued; otherwise the
\* arriving environment is joined into the stored one, and the block is
\* queued (and no longer visited) if the join changed the stored environment
\* and the queue and the visited set are left alone if it did not.
C2_InferenceArrival ==
    [][JoinArrival("infer") =>
        /\ snapshots' = snapshots /\ pcx' = pcx /\ stack' = Tail(stack)
        /\ IF Head(stack).target \notin DOMAIN inf_envs
           THEN /\ inf_envs' = MapWith(inf_envs, Head(stack).target, Head(stack).env)
                /\ Head(stack).target \in Range(queue')
                /\ Head(stack).target \notin visited'
           ELSE /\ inf_envs' = MapWith(inf_envs, Head(stack).target,
                                       JoinEnv(inf_envs[Head(stack).target], Head(stack).env))
                /\ IF inf_envs' # inf_envs
                   THEN /\ Head(stack).target \in Range(queue')
                        /\ Head(stack).target \notin visited'
                   ELSE queue' = queue /\ visited' = visited]_vars

\* the inference pass has seen, at one join block, a first arrival, an
\* arrival whose join changed the stored environment and one whose join did not
C2_Witness ==
    /\ phase = "infer"
    /\ log # <<>> /\ log[Len(log)][1] = "join" /\ log[Len(log)][4] = 0
    /\ CountEvents(Event("join", "infer", log[Len(log)][3], 1)) >= 2
    /\ inf_envs[log[Len(log)][3]] # <<>>

\* C3: in checking mode the closed environment of a join block is built on
\* the first arrival at the block and never again: once stored it stays as it
\* is; an arrival at a block that has one allocates no kvar and does not
\* queue the block; the first arrival queues it; and every arrival is checked
\* against the stored environment: the guard of each of its parameters,
\* instantiated for the arriving environment, is pushed as an obligation.
C3_CheckArrival ==
    [][/\ (phase = "check" /\ phase' = "check") =>
            \A bb \in DOMAIN chk_envs :
                bb \in DOMAIN chk_envs' /\ chk_envs'[bb] = chk_envs[bb]
       /\ JoinArrival("check") =>
            /\ Head(stack).target \in DOMAIN chk_envs'
            /\ IF Head(stack).target \notin DOMAIN chk_envs
               THEN /\ queue' = Append(queue, Head(stack).target)
                    /\ Head(stack).target \notin visited'
               ELSE /\ queue' = queue /\ visited' = visited /\ kvars' = kvars
            /\ \A i \in DOMAIN chk_envs'[Head(stack).target].params :
                  pcx'.nodes[Len(pcx.nodes) + i] =
                     <<Head(stack).cur, "Head", 0, "Goto",
                       SubstFree(chk_envs'[Head(stack).target].params[i][3],
                                 InferFromBbEnv(Head(stack).env,
                                                chk_envs'[Head(stack).target]).m)>>]_vars

\* the checking pass has seen a second arrival at a join block whose closed
\* environment has a parameter
C3_Witness ==
    /\ phase = "check"
    /\ \E bb \in DOMAIN chk_envs :
          /\ chk_envs[bb].params # <<>>
          /\ CountEvents(Event("join", "check", bb, 1)) = 1
          /\ CountEvents(Event("join", "check", bb, 0)) >= 1

\* C4: in the checking pass every join block that is the target of a pending
\* goto either has its closed environment or has a shape, so that the lookup
\* of the shape on the first arrival cannot fail; every shape in the map is
\* the one the inference pass of the procedure computed for the block; and a
\* shape is consumed at most once: a block whose closed environment is built
\* has no shape left, and no run is aborted by a lookup that fails.
C4_ShapesAvailable ==
    /\ phase = "panic" => pcx.err # "unwrap"
    /\ phase = "check" =>
        /\ \A i \in DOMAIN stack :
              IsJoinPoint(prog.body, stack[i].target) =>
                 stack[i].target \in DOMAIN chk_envs \cup DOMAIN shapes
        /\ \A bb \in DOMAIN shapes :
              bb \in DOMAIN inf_envs /\ shapes[bb] = IntoShape(inf_envs[bb])
        /\ DOMAIN shapes \cap DOMAIN chk_envs = {}
        /\ DOMAIN chk_envs \subseteq DOMAIN inf_envs

\* in the checking pass one shape is consumed, another is still in the map,
\* and an arrival at a join block is pending
C4_Witness ==
    /\ phase = "check"
    /\ DOMAIN chk_envs # {} /\ DOMAIN shapes # {}
    /\ stack # <<>> /\ IsJoinPoint(prog.body, Head(stack).target)

\* the number of times block bb was checked in pass p
Checks(p, bb) ==
    Cardinality({i \in DOMAIN log :
                    log[i][1] \in {"block", "pop"} /\ log[i][2] = p /\ log[i][3] = bb})

\* C5: in the checking pass no block is checked a second time, and when the
\* pass has ended every block reachable from the entry block has been checked
\* exactly once: a block that is no join point by the dispatch of its
\* predecessor, a join point by being popped from the worklist.
C5_CheckedOnce ==
    /\ \A bb \in BlocksOf(prog.body) : Checks("check", bb) <= 1
    /\ phase = "done" =>
          \A bb \in Reachable(prog.body) :
             /\ Checks("check", bb) = 1
             /\ CountEvents(Event(IF IsJoinPoint(prog.body, bb) THEN "pop" ELSE "block",
                                  "check", bb, 0)) = 1

\* the checking pass has ended on a procedure with a loop: every block is
\* reachable, one is a join point that dominates a block that jumps back
C5_Witness ==
    /\ phase = "done"
    /\ Reachable(prog.body) = BlocksOf(prog.body)
    /\ \E bb \in BlocksOf(prog.body) :
          /\ IsJoinPoint(prog.body, bb)
          /\ CountEvents(Event("join", "check", bb, 0)) >= 1
          /\ CountEvents(Event("join", "infer", bb, 1)) >= 2

\* the block checked by the next step of run
ReturnTarget == IF stack # <<>> THEN Head(stack).target ELSE Head(queue)

\* the next step of run checks a block whose terminator is Return
ReturnStep ==
    /\ Running
    /\ IF stack # <<>> THEN ~IsJoinPoint(prog.body, Head(stack).target)
       ELSE queue # <<>> /\ DominatorCursor(Head(queue)) # None
    /\ BlockData(prog.body, ReturnTarget).terminator[1] = "Return"
    /\ phase' # "panic"

\* the context, cursor and environment when the terminator of bb is reached
\* from the block entry u
BeforeTerminator(u, bb) ==
    CheckStatements([pcx |-> IF bb \in visited THEN Clear(u.pcx, u.cur) ELSE u.pcx,
                     cur |-> u.cur, env |-> u.env],
                    BlockData(prog.body, bb).statements)

PoppedEntry(e) == UnpackAll(e.pcx, e.cur, e.env)

\* the entry of the block the next step checks
BlockEntry ==
    IF stack # <<>>
    THEN [pcx |-> pcx, cur |-> Head(stack).cur, env |-> Head(stack).env]
    ELSE PoppedEntry(EnterBasicBlock(DominatorCursor(Head(queue)), Head(queue)))

\* the context pc extended by the obligations of the ensures clauses from
\* the i-th on, in the environment of r
RECURSIVE EnsuresChecked(_, _, _)
EnsuresChecked(pc, r, i) ==
    IF i > Len(ret.ensures) THEN pc
    ELSE EnsuresChecked(
            Subtyping(pc, r.cur, r.env[LocAbstract(ret.ensures[i][1])],
                      ret.ensures[i][2], "Ensures"),
            r, i + 1)

\* what a Return reached in r leaves: the obligations of the return place
\* against the declared return type and then of every ensures clause, and
\* no new pending goto
ReturnChecked(r) ==
    /\ pcx' = EnsuresChecked(
                 Subtyping(r.pcx, r.cur, r.env[LocLocal(RETURN_PLACE)], ret.ret, "Ret"),
                 r, 1)
    /\ stack' = IF stack # <<>> THEN Tail(stack) ELSE <<>>
    /\ queue' = IF stack # <<>> THEN queue ELSE Tail(queue)
    /\ \E h \in (Len(r.pcx.nodes) + 1) .. Len(pcx'.nodes) :
          pcx'.nodes[h][2] = "Head" /\ pcx'.nodes[h][4] = "Ret"
    /\ Cardinality({h \in (Len(r.pcx.nodes) + 1) .. Len(pcx'.nodes) :
                       pcx'.nodes[h][2] = "Head" /\ pcx'.nodes[h][4] = "Ensures"})
          >= Len(ret.ensures)

HeadsTagged(pc, tag) == {h \in HeadsOf(pc) : pc.nodes[h][4] = tag}

\* C7: checking fn(x: int{v: v > 0}) -> int{v: v > 0} whose body returns x
\* ends with no failing obligation; the only obligation is the postcondition
\* of the return, and it is implied by the assumed precondition.
C7_ReturnArgChecks ==
    prog = ProgReturnArg =>
        /\ phase # "panic"
        /\ phase = "done" =>
              /\ FailingHeads(pcx, kvars) = {}
              /\ Cardinality(HeadsOf(pcx)) = 1
              /\ Cardinality(HeadsTagged(pcx, "Ret")) = 1

\* the checking pass of scenario 1 has ended with the obligation x > 0 under
\* the binding of x
C7_Witness ==
    /\ prog = ProgReturnArg /\ phase = "done"
    /\ \E h \in HeadsTagged(pcx, "Ret") :
          pcx.nodes[h][5] = EBin("Gt", EVar(pcx.nodes[pcx.nodes[h][1]][3]), EConst(0))

\* the procedures whose return value does not have the declared refinement
FailingReturns == {ProgReturnPred, ProgReturnLb, ProgReturnInc}

\* C8: checking a procedure whose declared return refinement is not implied
\* by the returned expression (x - 1 against the lower bound of x, x + 2
\* against the index x + 1) ends with exactly one failing obligation, the
\* postcondition of the return.
C8_ReturnFails ==
    prog \in FailingReturns =>
        /\ phase # "panic"
        /\ phase = "done" =>
              /\ Cardinality(FailingHeads(pcx, kvars)) = 1
              /\ FailingHeads(pcx, kvars) = HeadsTagged(pcx, "Ret")

\* the checking pass has ended on x - 1 with the obligation x - 1 > 0 failing
C8_Witness ==
    /\ prog = ProgReturnPred /\ phase = "done"
    /\ \E h \in FailingHeads(pcx, kvars) :
          /\ pcx.nodes[h][4] = "Ret"
          /\ pcx.nodes[h][5][3] = EBin("Sub", EVar(pcx.nodes[pcx.nodes[h][1]][3]), EConst(1))

\* the join block of scenario 3 and the location assigned in both branches
JoinBlock == Len(ProgJoinGood.body) - 1

JoinedLoc == LocLocal(2)

\* the closed environment b abstracts location l by one parameter, guarded
\* by a kvar whose first argument is the parameter
AbstractedBy(b, l) ==
    /\ Len(b.params) = 1
    /\ b.params[1][3][1] = "KVar"
    /\ b.params[1][3][3][1] = EVar(b.params[1][1])
    /\ b.env[l] = TRefine(BInt, EVar(b.params[1][1]))

\* C9: at the join of the two branches that assign x := 1 and x := 2, the
\* environment the inference pass stores for the join block gives x an
\* existential type with an unknown predicate (a hole, no disjunction of the
\* two indices), the closed environment of the checking pass gives x one
\* fresh parameter guarded by a kvar, and after the join the postcondition
\* v >= 1, which both values satisfy, is accepted while v > 1, which the
\* value 1 violates, is rejected at the return.
C9_JoinAbstracts ==
    prog \in {ProgJoinGood, ProgJoinBad} =>
        /\ phase # "panic"
        /\ phase \in {"inferred", "check", "done"} =>
              inf_envs[JoinBlock][JoinedLoc] = TExists(BInt, PHole)
        /\ (phase \in {"check", "done"} /\ JoinBlock \in DOMAIN chk_envs) =>
              AbstractedBy(chk_envs[JoinBlock], JoinedLoc)
        /\ phase = "done" =>
              FailingTags(pcx, kvars) = IF prog = ProgJoinGood THEN {} ELSE {"Ret"}

\* both branches have arrived at the join block in both passes, and the run
\* of the accepted procedure has ended
C9_Witness ==
    /\ prog = ProgJoinGood /\ phase = "done"
    /\ CountEvents(Event("join", "infer", JoinBlock, 1)) = 2
    /\ CountEvents(Event("join", "check", JoinBlock, 0)) = 1
    /\ FailingHeads(pcx, kvars) = {}

\* the integers of type ty when the integer in scope has the value a
TyVals(ty, a) ==
    IF ty[1] = "Indexed" THEN {Eval(ty[3], (1 :> a), <<>>)}
    ELSE {v \in IntVals : Eval(SubstBound(ty[3], EConst(v)), (1 :> a), <<>>) = 1}

\* ty1 is a subtype of ty2 whatever the integer in scope is
SemSubtype(ty1, ty2) == \A a \in IntVals : TyVals(ty1, a) \subseteq TyVals(ty2, a)

\* a call that passes a mutable pointer to a location for a formal &mut
MutBorrow == call.kind = "mut"

\* the referent type of the formal, once the evars are solved
ReferentType == SubstLeafTy(SubstLeafTy(call.formal.ty, "SigVar", BinderEVars(1)),
                            "EVar", Solve(infcx).m)

\* C10 (amended): for a call whose formal is a mutable reference and whose
\* actual is a mutable pointer to a location, check_fn_call does not panic;
\* when it has returned, the type of the location is exactly the referent
\* type the callee declares (with the refinement parameters solved), the
\* location is blocked, and, for a referent type without refinement
\* parameters, no obligation fails exactly when the type the location had
\* is a subtype of the referent type.
C10_MutBorrowBlocked ==
    MutBorrow =>
        /\ cpc # "panic"
        /\ cpc = "returned" =>
              /\ cenv.bindings[CallLoc] = ReferentType
              /\ CallLoc \in cenv.blocked
              /\ call.formal.binders = 0 =>
                    (FailingHeads(rcx.pcx, 0) = {}
                        <=> SemSubtype(call.loc_ty, call.formal.ty))

\* C10 as stated: the call check succeeds when the location's type is a
\* subtype of the referent type, afterwards the location has the callee's
\* type, and the location is unblocked once the call has returned.
C10_Unblocked ==
    (MutBorrow /\ cpc = "returned") =>
        /\ SemSubtype(call.loc_ty, call.formal.ty) => FailingHeads(rcx.pcx, 0) = {}
        /\ cenv.bindings[CallLoc] = ReferentType
        /\ CallLoc \notin cenv.blocked

\* the call has returned for a location of type int{v: v > 2} passed for
\* &mut int{v: v > 0}: no obligation fails, the location has the callee's
\* type and is blocked
C10_Witness ==
    /\ MutBorrow /\ cpc = "returned"
    /\ call.loc_ty = GtConst(2) /\ call.formal.ty = GtConst(0)
    /\ FailingHeads(rcx.pcx, 0) = {}
    /\ cenv.bindings[CallLoc] = GtConst(0)
    /\ CallLoc \in cenv.blocked

\* the next step of run checks the statements of a block
BlockPending ==
    /\ Running
    /\ IF stack # <<>> THEN ~IsJoinPoint(prog.body, Head(stack).target)
       ELSE queue # <<>> /\ DominatorCursor(Head(queue)) # None

\* the statements of the block the next step checks
PendingStmts == BlockData(prog.body, ReturnTarget).statements

\* the context, cursor and environment before the i-th statement of the
\* block the next step checks
BeforeStmt(i) ==
    CheckStatements([pcx |-> IF ReturnTarget \in visited
                             THEN Clear(BlockEntry.pcx, BlockEntry.cur)
                             ELSE BlockEntry.pcx,
                     cur |-> BlockEntry.cur, env |-> BlockEntry.env],
                    SubSeq(PendingStmts, 1, i - 1))

\* the rvalue of an assignment evaluated in b, and its type unpacked
RvalueIn(b, stmt) == CheckRvalue(b.pcx, b.cur, b.env, stmt[3])

WrittenIn(b, r) == Unpack(r.pcx, b.cur, r.ty)

\* the assignment stmt, checked in b, with r the outcome of its rvalue and
\* ty the type written: the place holds ty, the other locations are as
\* check_rvalue left them
WriteFramed(b, stmt, r, ty, after) ==
    /\ LookupPlace(after.env, stmt[2]) = ty
    /\ DOMAIN after.env = DOMAIN r.env
    /\ \A l \in DOMAIN r.env \ {PlaceOf(r.env, stmt[2]).loc} : after.env[l] = r.env[l]

AssignFramed(b, stmt) ==
    WriteFramed(b, stmt, RvalueIn(b, stmt), WrittenIn(b, RvalueIn(b, stmt)).ty,
                CheckStatement(b.pcx, b.cur, b.env, stmt))

OperandsOf(rv) ==
    CASE rv[1] = "Use"      -> {rv[2]}
      [] rv[1] = "BinaryOp" -> {rv[3], rv[4]}
      [] rv[1] = "UnaryOp"  -> {rv[3]}
      [] OTHER              -> {}

MovedBy(stmt) ==
    IF stmt[1] = "Assign" THEN {o[2] : o \in {m \in OperandsOf(stmt[3]) : m[1] = "Move"}}
    ELSE {}

\* the places dropped by the terminator that dispatched the pending block
DroppedInto(bb) ==
    {tm[2] : tm \in {prog.body[b].terminator : b \in DOMAIN prog.body} \cap
                     {TmDrop(q, bb) : q \in {Place(l) : l \in 0 .. prog.locals}}}

\* no statement from the i-th to the one before the j-th writes place p
NotWritten(p, i, j) ==
    \A k \in i .. (j - 1) : ~(PendingStmts[k][1] = "Assign" /\ PendingStmts[k][2] = p)

\* a read of p before the j-th statement (before the terminator when j is
\* past the last statement) finds the location uninitialized
ReadsUninit(p, j) ==
    /\ PlaceOf(BeforeStmt(j).env, p).ty = TUninit
    /\ CheckOperand(BeforeStmt(j).env, OpCopy(p)).ty = TUninit

SameArrival ==
    /\ Running /\ phase = "infer" /\ stack # <<>>
    /\ IsJoinPoint(prog.body, Head(stack).target)
    /\ DominatorCursor(Head(stack).target) # None
    /\ Head(stack).target \in DOMAIN inf_envs
    /\ inf_envs[Head(stack).target] = Head(stack).env

\* C13: joining an environment with an identical copy of itself reports no
\* change and leaves the environment as it was, so a join block whose
\* arriving environment equals the stored one is not queued again.
C13_SelfJoin ==
    [][SameArrival =>
         /\ Join(Head(stack).env, Head(stack).env)
               = [env |-> Head(stack).env, changed |-> FALSE]
         /\ inf_envs' = inf_envs
         /\ queue' = queue
         /\ visited' = visited]_vars

\* an arrival of an identical environment, with a refined location, at a
\* join block that was visited and is not queued
C13_Witness ==
    /\ SameArrival
    /\ Head(stack).target \in visited
    /\ \A i \in DOMAIN queue : queue[i] # Head(stack).target
    /\ \E l \in DOMAIN Head(stack).env : Head(stack).env[l][1] = "Refine"


\* the obligations of a context
HeadNodes(pc) == {i \in DOMAIN pc.nodes : pc.nodes[i][2] = "Head"}

\* the predicates assumed on the path from the root to the obligation i
AssumedAbove(pc, i) == {pc.nodes[k][5] : k \in Range(PathTo(pc.nodes, pc.nodes[i][1]))}

IsEquality(p) == p[1] = "Bin" /\ p[2] = "Eq"

\* an obligation e = e, or one that is assumed on its own path
TrivialHead(pc, i) ==
    \/ IsEquality(pc.nodes[i][5]) /\ pc.nodes[i][5][3] = pc.nodes[i][5][4]
    \/ pc.nodes[i][5] \in AssumedAbove(pc, i)

\* the type has the constructor k somewhere
RECURSIVE Mentions(_, _)
Mentions(ty, k) ==
    \/ ty[1] = k
    \/ CASE ty[1] = "Ref"    -> Mentions(ty[3], k)
         [] ty[1] = "Tuple"  -> \E i \in DOMAIN ty[2] : Mentions(ty[2][i], k)
         [] ty[1] = "Array"  -> Mentions(ty[2], k)
         [] ty[1] = "Constr" -> Mentions(ty[3], k)
         [] ty[1] = "Indexed" /\ ty[2][1] = "Adt" ->
               \E i \in DOMAIN ty[2][3] : Mentions(ty[2][3][i], k)
         [] OTHER            -> FALSE

\* a type is compared with itself by InferCtxt::subtyping
Reflexive == call.op = "infer" /\ call.evars = 0 /\ call.ty1 = call.ty2

\* C14: for every type ty of the model, subtyping(ty, ty) neither aborts nor
\* leaves an evar unsolved; it emits no equality obligation for a pair of
\* syntactically equal indices; every equality obligation it emits is e = e
\* once the evars are replaced by their solution; and when ty has no
\* constrained type in it, every obligation is then e = e or assumed on its
\* own path.
C14_Reflexive ==
    Reflexive =>
        /\ cpc \notin {"panic", "error"}
        /\ cpc = "solve" /\ ~Mentions(call.ty1, "Exists") =>
              \A i \in HeadNodes(rcx.pcx) : ~IsEquality(rcx.pcx.nodes[i][5])
        /\ cpc = "returned" =>
              \A i \in HeadNodes(rcx.pcx) :
                  IsEquality(rcx.pcx.nodes[i][5]) => TrivialHead(rcx.pcx, i)
        /\ cpc = "returned" /\ ~Mentions(call.ty1, "Constr") =>
              \A i \in HeadNodes(rcx.pcx) : TrivialHead(rcx.pcx, i)

\* a mutable reference to int{v: v > 0} was compared with itself: each
\* direction left the guard and an equality, both trivial after solve
C14_Witness ==
    /\ Reflexive /\ cpc = "returned"
    /\ call.ty1 = TRef("Mut", TExists(BInt, Positive(EBound)))
    /\ Cardinality(HeadNodes(rcx.pcx)) = 4
    /\ \E i \in HeadNodes(rcx.pcx) : IsEquality(rcx.pcx.nodes[i][5])
    /\ \E i \in HeadNodes(rcx.pcx) : rcx.pcx.nodes[i][5] \in AssumedAbove(rcx.pcx, i)


\* node i of the context lies below the node cur
Below(pc, cur, i) == cur \in Range(PathTo(pc.nodes, pc.nodes[i][1]))

\* the context after is the context before with nodes added below the
\* cursor only: the bindings in scope at the cursor and the path to it are
\* what they were
ContextKept(before, after, cur) ==
    /\ Len(after.nodes) >= Len(before.nodes)
    /\ \A i \in DOMAIN before.nodes : after.nodes[i] = before.nodes[i]
    /\ \A i \in DOMAIN after.nodes \ DOMAIN before.nodes : Below(after, cur, i)
    /\ ScopeAt(after, cur) = ScopeAt(before, cur)
    /\ PathTo(after.nodes, cur) = PathTo(before.nodes, cur)

\* every pending branch starts from the caller's cursor or from one
\* assumption pushed directly below it
BranchesIsolated(after, cur, frames) ==
    \A k \in DOMAIN frames :
        \/ frames[k].cur = cur
        \/ /\ after.nodes[frames[k].cur][2] = "Pred"
           /\ after.nodes[frames[k].cur][1] = cur

\* C15: what subtyping(ty1, ty2) and the branches of a multi-way branch
\* bind and assume is bound and assumed in child contexts: when subtyping
\* returns, and when the branches have been dispatched, the caller's context
\* has the bindings and the path condition it had, and every branch starts
\* from the caller's context extended by its own condition only.
C15_BreadcrumbIsolation ==
    [][cpc = "start" =>
         /\ rcx'.cur = rcx.cur
         /\ ContextKept(rcx.pcx, rcx'.pcx, rcx.cur)
         /\ call.op = "switch" => BranchesIsolated(rcx'.pcx, rcx.cur, stack')]_vars

\* a switch with two explicit branches was dispatched: three branches are
\* pending, each under its own assumption below the caller's cursor
C15_Witness ==
    /\ call.op = "switch" /\ cpc = "returned"
    /\ Len(stack) = 3
    /\ \A k \in 1 .. 3 : rcx.pcx.nodes[stack[k].cur][1] = rcx.cur
    /\ Cardinality({stack[k].cur : k \in 1 .. 3}) = 3


\* the evars of the inference context that have a solution
SolvedEVars == {n \in DOMAIN infcx.evars : infcx.evars[n].sol # <<>>}

\* InferCtxt::subtyping has returned
Inferred == call.op = "infer" /\ cpc \in {"solve", "returned", "error"}

\* C16: an evar is unified only with a term whose free variables were all in
\* the scope captured when the context of the evar was made (by
\* InferCtxt::new or by push_scope), so never with a term that has a free
\* variable introduced later, whatever scopes were pushed and popped before
\* and after.
C16_ScopeDiscipline ==
    Inferred =>
        \A n \in SolvedEVars :
            FreeVars(infcx.evars[n].sol[1]) \subseteq infcx.captured[infcx.evars[n].cx]

\* int{v: v > 0} was compared with a type indexed by an evar of the caller's
\* scope: the variable the existential was unpacked into came later, the
\* evar was not unified and is unsolved
C16_Witness ==
    /\ Inferred /\ cpc = "error" /\ call.evars = 1
    /\ call.ty1 = TExists(BInt, Positive(EBound))
    /\ call.ty2 = TIndexed(BInt, EEVar(1), TRUE)
    /\ SolvedEVars = {}
    /\ \E i \in HeadNodes(rcx.pcx) :
          /\ rcx.pcx.nodes[i][5] = EBin("Eq", EVar(2), EEVar(1))
          /\ 2 \notin infcx.captured[infcx.evars[1].cx]


\* InferCtxt::subtyping has compared one pair of indices of integer types:
\* the left type is indexed, or an existential unpacked into the fresh name
\* after n, and the right type is indexed; the evars are not yet replaced
IndexPair ==
    /\ call.op = "infer" /\ cpc = "solve"
    /\ call.ty1[1] \in {"Indexed", "Exists"} /\ call.ty2[1] = "Indexed"
    /\ call.ty1[2] = BInt /\ call.ty2[2] = BInt

LeftIndex == IF call.ty1[1] = "Indexed" THEN call.ty1[3] ELSE EVar(SubN[2] + 1)

RightIndex == call.ty2[3]

EqualityHeads(pc) == {i \in HeadNodes(pc) : IsEquality(pc.nodes[i][5])}

\* the right index is an evar and the left index is closed in its scope
Unifiable ==
    /\ RightIndex[1] = "EVar"
    /\ FreeVars(LeftIndex) \subseteq infcx.captured[infcx.evars[RightIndex[2]].cx]

Emitted == call.op = "infer" /\ cpc = "solve"

\* C18: when ty1 is a constrained type its guard is assumed on the path of
\* every obligation of subtyping(ty1, ty2), the guard obligation of a
\* constrained ty2 included; when ty2 is a constrained type its guard is
\* emitted as an obligation.
C18_GuardAssumed ==
    Emitted =>
        /\ call.ty1[1] = "Constr" =>
              \A i \in HeadNodes(rcx.pcx) : call.ty1[2] \in AssumedAbove(rcx.pcx, i)
        /\ call.ty2[1] = "Constr" =>
              \E i \in HeadNodes(rcx.pcx) : rcx.pcx.nodes[i][5] = call.ty2[2]

\* {n > 0} int[n] was compared with itself: the one obligation is the guard
\* n > 0, it is emitted at the caller's cursor, where n > 0 is not assumed,
\* and it fails
C18_Witness ==
    /\ Emitted
    /\ call.ty1 = TConstr(Positive(SubN), TIndexed(BInt, SubN, FALSE))
    /\ call.ty2 = call.ty1
    /\ Cardinality(HeadNodes(rcx.pcx)) = 1
    /\ \A i \in HeadNodes(rcx.pcx) :
          /\ rcx.pcx.nodes[i][5] = Positive(SubN)
          /\ rcx.pcx.nodes[i][1] = rcx.cur
          /\ Positive(SubN) \notin AssumedAbove(rcx.pcx, i)
    /\ FailingHeads(rcx.pcx, 0) = HeadNodes(rcx.pcx)


\* the base types of two indexed types diverge: another constructor,
\* another width, another ADT
BaseMismatch(bty1, bty2) ==
    \/ bty1[1] # bty2[1]
    \/ bty1[1] = "Adt" /\ bty1[2] # bty2[2]
    \/ bty1[1] # "Adt" /\ bty1 # bty2

\* two shapes no rule of subtyping covers
ShapeMismatch(ty1, ty2) ==
    \/ ty1[1] = "Tuple" /\ ty2[1] = "Tuple" /\ Len(ty1[2]) # Len(ty2[2])
    \/ ty1[1] = "Array" /\ ty2[1] = "Array" /\ ty1[3] # ty2[3]
    \/ ty1[1] = "Indexed" /\ ty2[1] = "Indexed" /\ BaseMismatch(ty1[2], ty2[2])
    \/ ty1[1] = "Ptr" /\ ty2[1] = "Ptr" /\ (ty1[2] # ty2[2] \/ ty1[3] # ty2[3])
    \/ ty1[1] = "Ref" /\ ty2[1] = "Ref" /\ ty1[2] # ty2[2]
    \/ /\ ty1[1] # ty2[1]
       /\ ty1[1] \in {"Indexed", "Ptr", "Ref", "Tuple", "Array", "Param", "Uninit"}
       /\ ty2[1] \in {"Indexed", "Ptr", "Ref", "Tuple", "Array", "Param"}

\* InferCtxt::subtyping was applied to two shapes no rule covers
Mismatched ==
    /\ call.op = "infer" /\ call.evars = 0 /\ cpc # "start"
    /\ ShapeMismatch(call.ty1, call.ty2)

\* C19: subtyping between two shapes that no rule covers (tuples of
\* different arity, arrays of different length, divergent base types,
\* pointers of different kind or path, any other uncovered pair of
\* constructors) aborts the run: it never returns normally.
C19_MismatchAborts == Mismatched => cpc = "panic"

\* a tuple of one field was accepted as a tuple of two in a build without
\* debug assertions: subtyping returned, with no obligation for the second
\* field
C19_Witness ==
    /\ Mismatched /\ cpc = "returned" /\ ~call.debug
    /\ call.ty1 = TTuple(<<TIndexed(BInt, EConst(0), FALSE)>>)
    /\ call.ty2 = TTuple(<<TIndexed(BInt, EConst(0), FALSE), TIndexed(BInt, SubN, FALSE)>>)
    /\ HeadNodes(rcx.pcx) = {}


\* the predicates of the obligations of a context
HeadPreds(pc) == {pc.nodes[i][5] : i \in HeadNodes(pc)}

\* the next step compares two references of kind k (InferCtxt::subtyping)
RefPair(k) ==
    /\ cpc = "start" /\ call.op = "infer"
    /\ call.ty1[1] = "Ref" /\ call.ty2[1] = "Ref"
    /\ call.ty1[2] = k /\ call.ty2[2] = k

\* the next step compares two references built by con (ConstraintGen::subtyping)
OldRefPair(con) ==
    /\ cpc = "start" /\ call.op = "constr"
    /\ call.ty1[1] = con /\ call.ty2[1] = con

\* the referents a and b are checked a <: b and then b <: a
BothWays(a, b) ==
    /\ rcx'.pcx = InfSubtyping(InfSubtyping(SubInfCtxt, rcx.cur, a, b, "Sub"),
                               rcx.cur, b, a, "Sub").rcx
    /\ a[1] = "Indexed" /\ b[1] = "Indexed" /\ a[3] # b[3] =>
          HeadPreds(rcx'.pcx) = {EBin("Eq", a[3], b[3]), EBin("Eq", b[3], a[3])}

\* the referents a and b are checked a <: b only
OneWay(a, b) ==
    /\ rcx'.pcx = InfSubtyping(SubInfCtxt, rcx.cur, a, b, "Sub").rcx
    /\ a[1] = "Indexed" /\ b[1] = "Indexed" /\ a[3] # b[3] =>
          HeadPreds(rcx'.pcx) = {EBin("Eq", a[3], b[3])}

\* C20: subtyping between two mutable references checks the referents in
\* both directions, inner1 <: inner2 and then inner2 <: inner1; subtyping
\* between two shared references checks inner1 <: inner2 only.
C20_RefVariance ==
    [][/\ RefPair("Mut") => BothWays(call.ty1[3], call.ty2[3])
       /\ RefPair("Shr") => OneWay(call.ty1[3], call.ty2[3])
       /\ OldRefPair("WeakRef") =>
             rcx'.pcx = Subtyping(Subtyping(rcx.pcx, rcx.cur, call.ty1[2], call.ty2[2], "Sub"),
                                  rcx.cur, call.ty2[2], call.ty1[2], "Sub")
       /\ OldRefPair("ShrRef") =>
             rcx'.pcx = Subtyping(rcx.pcx, rcx.cur, call.ty1[2], call.ty2[2], "Sub")]_vars

\* &mut int[0] was compared with &mut int[n]: the obligations are 0 = n and
\* n = 0
C20_Witness ==
    /\ call.op = "infer" /\ cpc = "solve"
    /\ call.ty1 = TRef("Mut", TIndexed(BInt, EConst(0), FALSE))
    /\ call.ty2 = TRef("Mut", TIndexed(BInt, SubN, FALSE))
    /\ HeadPreds(rcx.pcx) = {EBin("Eq", EConst(0), SubN), EBin("Eq", SubN, EConst(0))}

\* the next step compares two nominal types of declaration d with equal
\* indices (InferCtxt::subtyping)
AdtPair(d) ==
    /\ cpc = "start" /\ call.op = "infer"
    /\ call.ty1[1] = "Indexed" /\ call.ty2[1] = "Indexed" /\ call.ty1[3] = call.ty2[3]
    /\ call.ty1[2][1] = "Adt" /\ call.ty2[2][1] = "Adt"
    /\ call.ty1[2][2] = d /\ call.ty2[2][2] = d

\* the next step compares two nominal types of declaration d with equal
\* indices (ConstraintGen::subtyping)
OldAdtPair(d) ==
    /\ cpc = "start" /\ call.op = "constr"
    /\ call.ty1[1] = "Refine" /\ call.ty2[1] = "Refine" /\ call.ty1[3] = call.ty2[3]
    /\ call.ty1[2][1] = "Adt" /\ call.ty2[2][1] = "Adt"
    /\ call.ty1[2][2] = d /\ call.ty2[2][2] = d

\* the generic arguments of the two nominal types
Args1 == call.ty1[2][3]
Args2 == call.ty2[2][3]

\* ConstraintGen::subtyping checks a <: b only
OldOneWay(a, b) ==
    /\ rcx'.pcx = Subtyping(rcx.pcx, rcx.cur, a, b, "Sub")
    /\ a[1] = "Refine" /\ b[1] = "Refine" /\ a[3] # b[3] =>
          HeadPreds(rcx'.pcx) = {EBin("Eq", a[3], b[3])}

\* ConstraintGen::subtyping checks a <: b and then b <: a
OldBothWays(a, b) ==
    /\ rcx'.pcx = Subtyping(Subtyping(rcx.pcx, rcx.cur, a, b, "Sub"), rcx.cur, b, a, "Sub")
    /\ a[1] = "Refine" /\ b[1] = "Refine" /\ a[3] # b[3] =>
          HeadPreds(rcx'.pcx) = {EBin("Eq", a[3], b[3]), EBin("Eq", b[3], a[3])}

\* C21: for two nominal base types of the same declaration each pair of
\* generic arguments is compared as the declared variance of its position
\* says: covariant checks arg1 <: arg2, contravariant arg2 <: arg1, invariant
\* both, bivariant nothing; the declaration 4 has a covariant and an
\* invariant position.
C21_Variance ==
    [][/\ AdtPair(0) => OneWay(Args1[1], Args2[1])
       /\ AdtPair(1) => BothWays(Args1[1], Args2[1])
       /\ AdtPair(2) => OneWay(Args2[1], Args1[1])
       /\ AdtPair(3) => rcx'.pcx = rcx.pcx /\ HeadNodes(rcx'.pcx) = {}
       /\ AdtPair(4) =>
             rcx'.pcx = InfSubtyping(
                            InfSubtyping(
                                InfSubtyping(SubInfCtxt, rcx.cur, Args1[1], Args2[1], "Sub"),
                                rcx.cur, Args1[2], Args2[2], "Sub"),
                            rcx.cur, Args2[2], Args1[2], "Sub").rcx
       /\ OldAdtPair(0) => OldOneWay(Args1[1], Args2[1])
       /\ OldAdtPair(1) => OldBothWays(Args1[1], Args2[1])
       /\ OldAdtPair(2) => OldOneWay(Args2[1], Args1[1])
       /\ OldAdtPair(3) => rcx'.pcx = rcx.pcx /\ HeadNodes(rcx'.pcx) = {}
       /\ OldAdtPair(4) =>
             rcx'.pcx = Subtyping(
                            Subtyping(
                                Subtyping(rcx.pcx, rcx.cur, Args1[1], Args2[1], "Sub"),
                                rcx.cur, Args1[2], Args2[2], "Sub"),
                            rcx.cur, Args2[2], Args1[2], "Sub")]_vars

\* two nominal types of the contravariant declaration 2 were compared, the
\* left one over int[0] and the right one over int[n]: the one obligation is
\* n = 0, the right argument checked against the left one
C21_Witness ==
    /\ call.op = "infer" /\ cpc = "solve"
    /\ call.ty1 = TIndexed(BAdt(2, <<TIndexed(BInt, EConst(0), FALSE)>>), EConst(0), FALSE)
    /\ call.ty2 = TIndexed(BAdt(2, <<TIndexed(BInt, SubN, FALSE)>>), EConst(0), FALSE)
    /\ HeadPreds(rcx.pcx) = {EBin("Eq", SubN, EConst(0))}

\* C22: subtyping(ty1, Uninit) is accepted for every ty1 and emits no
\* obligation, whatever the shape of ty1: the step returns without abort,
\* the context holds no head afterwards, no evar is made and solve succeeds.
C22_IntoUninit ==
    (call.op \in {"infer", "constr"} /\ call.ty2 = TUninit /\ cpc # "start") =>
        /\ cpc \in {"solve", "returned"}
        /\ HeadNodes(rcx.pcx) = {}
        /\ call.op = "infer" => DOMAIN infcx.evars = {}

\* a constrained type {n > 0} int[n] was compared with Uninit: subtyping
\* returned and the context holds no obligation
C22_Witness ==
    /\ call.op = "infer" /\ cpc = "returned"
    /\ call.ty1 = TConstr(Positive(SubN), TIndexed(BInt, SubN, FALSE))
    /\ call.ty2 = TUninit
    /\ HeadNodes(rcx.pcx) = {}

\* the terminator of the block the next step checks
PendingTerminator == BlockData(prog.body, ReturnTarget).terminator

\* the operands of the call tm typed in the environment of r
CallOperands(r, tm) == CheckOperands([env |-> r.env, tys |-> <<>>], tm[3])

\* the inference of the parameters of the call tm fails where r was reached
FailsIn(r, tm) ==
    /\ r.pcx.err = ""
    /\ ~InferFromFnCall(CallOperands(r, tm).env, CallOperands(r, tm).tys,
                        LookupFnSig(tm[2])).ok

\* the next step checks a block that ends in a call whose refinement
\* parameters cannot be inferred
InferenceFails ==
    /\ BlockPending /\ PendingTerminator[1] = "Call"
    /\ FailsIn(BeforeTerminator(BlockEntry, ReturnTarget), PendingTerminator)

\* C23: when the inference of the refinement parameters fails at a call,
\* check_call returns an error: the continuation block of the call is not
\* checked (no call of check_goto is pending for it), the pending calls and
\* the worklist stay as they were and are never processed (no step follows
\* the error), and run returns the error: the pass does not complete.
C23_InferenceAborts ==
    [][/\ InferenceFails =>
             /\ phase' = "error"
             /\ stack' = (IF stack # <<>> THEN Tail(stack) ELSE <<>>)
             /\ queue' = (IF stack # <<>> THEN queue ELSE Tail(queue))
             /\ log'[Len(log')][3] = ReturnTarget
             /\ \A f \in Range(stack') : f \in Range(stack)
       /\ phase = "error" => FALSE
       /\ phase' = "error" => InferenceFails]_vars

\* the call of the procedure whose parameter no argument determines failed
\* in the second branch while the join block 3 was in the worklist: the
\* block of the call is the last block checked
C23_Witness ==
    /\ prog.name = "call_branch_ghost" /\ phase = "error"
    /\ queue = <<3>>
    /\ log[Len(log)] = Event("block", "infer", 2, 0)

\* an evar occurs in an expression
RECURSIVE HasEVar(_)
HasEVar(e) ==
    CASE e[1] = "EVar" -> TRUE
      [] e[1] = "Bin"  -> HasEVar(e[3]) \/ HasEVar(e[4])
      [] e[1] \in {"Not", "Neg"} -> HasEVar(e[2])
      [] OTHER         -> FALSE

\* an evar occurs in a type, at any depth
RECURSIVE TyHasEVar(_)
TyHasEVar(ty) ==
    CASE ty[1] \in {"Indexed", "Exists"} ->
            \/ HasEVar(ty[3])
            \/ ty[2][1] = "Adt" /\ \E i \in DOMAIN ty[2][3] : TyHasEVar(ty[2][3][i])
      [] ty[1] = "Ref"    -> TyHasEVar(ty[3])
      [] ty[1] = "Ptr"    -> ty[3][1] = "EVar"
      [] ty[1] = "Tuple"  -> \E i \in DOMAIN ty[2] : TyHasEVar(ty[2][i])
      [] ty[1] = "Array"  -> TyHasEVar(ty[2])
      [] ty[1] = "Constr" -> HasEVar(ty[2]) \/ TyHasEVar(ty[3])
      [] OTHER            -> FALSE

\* an evar occurs in a requires or an ensures clause
ConstrHasEVar(c) ==
    IF c[1] = "Pred" THEN HasEVar(c[2]) ELSE c[2][1] = "EVar" \/ TyHasEVar(c[3])

\* an evar occurs in the bindings of an environment, in the nodes of a context
EnvHasEVar(env) == \E l \in DOMAIN env.bindings : TyHasEVar(env.bindings[l])
RcxHasEVar(pc) == \E i \in DOMAIN pc.nodes : HasEVar(pc.nodes[i][5])

\* C24: after check_fn_call has returned successfully no evar occurs in the
\* environment, in the context, in the returned return type or in the
\* returned postconditions; and the four are what the solution makes of
\* them: they were closed by the substitution of the solution.
C24_NoEVarLeft ==
    [][cpc' = "returned" =>
          /\ ~EnvHasEVar(cenv') /\ ~RcxHasEVar(rcx'.pcx)
          /\ ~TyHasEVar(cout'.ret)
          /\ \A i \in DOMAIN cout'.ensures : ~ConstrHasEVar(cout'.ensures[i])
          /\ cenv' = EnvReplaceEVars(cenv, Solve(infcx).m)
          /\ rcx'.pcx = RcxReplaceEVars(rcx.pcx, Solve(infcx).m)
          /\ cout'.ret = SubstLeafTy(cfn.sig.ret, "EVar", Solve(infcx).m)
          /\ Len(cout'.ensures) = Len(cfn.sig.ensures)]_vars

\* a call f(&mut x) with f(r: &mut int[@n]) -> int[n] requires n >= 0
\* ensures n >= 0 has returned: the evar of n was in the environment (the
\* location took the type of the formal), in the context (the obligation
\* n >= 0), in the return type and in the postcondition, and is 0 in all four
C24_Witness ==
    /\ cpc = "returned" /\ call.kind = "mut"
    /\ call.formal = [ty |-> TIndexed(BInt, ESig(1), TRUE), binders |-> 1]
    /\ call.loc_ty = TIndexed(BInt, EConst(0), FALSE)
    /\ DOMAIN infcx.evars = {1}
    /\ cenv.bindings[CallLoc] = TIndexed(BInt, EConst(0), TRUE)
    /\ \E i \in HeadNodes(rcx.pcx) : rcx.pcx.nodes[i][5] = EBin("Ge", EConst(0), EConst(0))
    /\ cout.ret = TIndexed(BInt, EConst(0), FALSE)
    /\ cout.ensures = <<<<"Pred", EBin("Ge", EConst(0), EConst(0))>>>>

\* a step of the loop over the arguments of check_fn_call or of the loop
\* over the elements of check_mk_array, its actual and its formal
ArgStep == cpc \in {"args", "arr_args"} /\ cfn' # cfn
StepActual == IF cpc = "args" THEN cfn.actuals[cfn.i] ELSE cfn.args[cfn.i]
StepFormal == IF cpc = "args" THEN cfn.sig.args[cfn.i] ELSE cfn.arr_ty

\* the inference state the match of the step starts from: check_fn_call has
\* checked the predicate of the formal
StepState ==
    IF cpc = "args"
    THEN InfCheckPred([rcx |-> rcx.pcx, ic |-> infcx], rcx.cur, ETrue, "Call")
    ELSE [rcx |-> rcx.pcx, ic |-> infcx]

\* the step emitted what subtyping ty1 against ty2 emits from state s
StepSubtyped(s, ty1, ty2) ==
    /\ rcx'.pcx = InfSubtyping(s, rcx.cur, ty1, ty2, "Call").rcx
    /\ infcx' = InfSubtyping(s, rcx.cur, ty1, ty2, "Call").ic

MutPair ==
    /\ StepActual[1] = "Ptr" /\ StepActual[2] = "Mut"
    /\ StepFormal[1] = "Ref" /\ StepFormal[2] = "Mut"
ShrPair ==
    /\ StepActual[1] = "Ptr" /\ StepActual[2] = "Shr"
    /\ StepFormal[1] = "Ref" /\ StepFormal[2] = "Shr"
StrgPair ==
    /\ cpc = "args"
    /\ StepActual[1] = "Ptr" /\ StepActual[2] = "Mut"
    /\ StepFormal[1] = "Ptr" /\ StepFormal[2] = "Mut"

\* the location's type is subtyped against the referent type, the location
\* takes the referent type and is blocked
MutPairEffect ==
    /\ StepSubtyped(StepState, cenv.bindings[StepActual[3]], StepFormal[3])
    /\ cenv'.bindings = [cenv.bindings EXCEPT ![StepActual[3]] = StepFormal[3]]
    /\ cenv'.blocked = cenv.blocked \cup {StepActual[3]}

\* the location's type is subtyped against the referent type, the location
\* keeps its type and is blocked
ShrPairEffect ==
    /\ StepSubtyped(StepState, cenv.bindings[StepActual[3]], StepFormal[3])
    /\ cenv'.bindings = cenv.bindings
    /\ cenv'.blocked = cenv.blocked \cup {StepActual[3]}

\* the actual is subtyped against the formal and the environment is left
OrdinaryEffect ==
    /\ StepSubtyped(StepState, StepActual, StepFormal)
    /\ cenv' = cenv

\* the path of the formal is unified with the path of the actual, the
\* location's type is subtyped against the type the callee requires of the
\* path, and the environment is left
StrgPairEffect ==
    /\ cenv' = cenv
    /\ RequiresOf(cfn.sig.requires, StepFormal[3]) # <<>>
    /\ StepSubtyped(UnifyExprs(StepState, PathExpr(StepActual[3]),
                               PathExpr(StepFormal[3]), FALSE),
                    cenv.bindings[StepActual[3]],
                    RequiresOf(cfn.sig.requires, StepFormal[3])[1][3])

\* C25 (amended): in check_fn_call and check_mk_array, a mutable-pointer
\* actual against a mutable-reference formal subtypes the location's current
\* type against the referent type, gives the location the referent type and
\* blocks it; a shared-pointer actual against a shared-reference formal
\* subtypes and blocks the location and leaves its type; in check_fn_call a
\* mutable-pointer actual against a mutable-pointer formal unifies the two
\* paths and subtypes the location's type against the type the callee
\* requires of the path, and leaves the environment; every other pair is
\* subtyped, actual against formal, and leaves the environment.
C25_ArgumentEffects ==
    [][ArgStep =>
          IF MutPair THEN MutPairEffect
          ELSE IF ShrPair THEN ShrPairEffect
          ELSE IF StrgPair THEN StrgPairEffect
          ELSE OrdinaryEffect]_vars

\* C25 as stated: every pair other than the two reference pairs is subtyped,
\* actual against formal, and leaves the environment.
C25_OtherPairsOrdinary ==
    [][ArgStep =>
          IF MutPair THEN MutPairEffect
          ELSE IF ShrPair THEN ShrPairEffect
          ELSE OrdinaryEffect]_vars

\* an array of shared pointers to a location of type int{v: v > 2} was built:
\* the location is blocked and has the type it had; the type of the elements
\* is the refined type &int{v: k(v, n)}
C25_Witness ==
    /\ cpc = "built" /\ call.kind = "arr_shr" /\ call.loc_ty = GtConst(2)
    /\ cenv.bindings[CallLoc] = GtConst(2)
    /\ cenv.blocked = {CallLoc}
    /\ cout.ret = TArray(TRef("Shr", RefinedInt), 1)

\* a location of env holds an existential type at its top level
HoldsExists(env) == \E l \in DOMAIN env : env[l][1] = "Exists"

\* the calls of check_goto the terminator of the block the next step checks
\* makes, with the environments it hands over
PendingFrames ==
    TerminatorAfter(BeforeStmt(Len(PendingStmts) + 1), PendingTerminator, ret).frames

\* the environment enter_basic_block gives for the block at the head of the
\* worklist, before unpack_all
EnteredEnv == EnterBasicBlock(DominatorCursor(Head(queue)), Head(queue)).env

\* C26: while a block is checked no location holds an existential type at
\* its top level: not when the block is begun (after unpack_all for a block
\* taken from the worklist, and with the arguments and the required
\* locations unpacked for the first block), not after any of its statements,
\* and not in an environment its terminator hands to check_goto (after the
\* postconditions and the return type of a call are written).
C26_NoExistsMidBlock ==
    BlockPending =>
        /\ \A i \in 1 .. Len(PendingStmts) + 1 : ~HoldsExists(BeforeStmt(i).env)
        /\ \A j \in DOMAIN PendingFrames : ~HoldsExists(PendingFrames[j].env)

\* in the inference pass the join block of the procedure with calls in both
\* branches is taken from the worklist: the environment that is entered
\* gives the local the calls returned into an existential type, and the
\* block begins with that local unpacked
C26_Witness ==
    /\ BlockPending /\ stack = <<>> /\ phase = "infer"
    /\ prog.name = "call_branch_pos"
    /\ EnteredEnv[LocLocal(2)] = TExists(BInt, PHole)
    /\ DOMAIN BlockEntry.env = DOMAIN EnteredEnv
    /\ ~HoldsExists(BlockEntry.env)

\* the context, cursor and environment the terminator of the block the
\* next step checks is checked in, and the type of its discriminant
AtTerminator == BeforeStmt(Len(PendingStmts) + 1)
PendingDiscr == CheckOperand(AtTerminator.env, PendingTerminator[2]).ty
PendingTargets == PendingTerminator[3]

\* the path condition of node n: what is assumed from the root down to n
PathConds(pc, n) ==
    [k \in DOMAIN PathTo(pc.nodes, n) |-> pc.nodes[PathTo(pc.nodes, n)[k]][5]]

\* the condition of the k-th explicit branch of the pending multi-way branch
BranchCond(k) == SwitchCond(PendingDiscr, PendingTargets[k][1])

\* p holds exactly when no condition of conds holds, for every valuation
NegatesAllOn(p, vals, conds) ==
    \A q \in {p}, cs \in {conds}, val \in vals :
        Eval(q, val, <<>>) = 1 <=> \A k \in DOMAIN cs : Eval(cs[k], val, <<>>) # 1

\* p holds exactly when no condition of an explicit branch holds, whatever
\* the values of the names in scope are
NegatesAll(p) ==
    NegatesAllOn(p,
                 Valuations(AtTerminator.pcx.nodes,
                            BindingsOn(AtTerminator.pcx.nodes,
                                       PathTo(AtTerminator.pcx.nodes, AtTerminator.cur))),
                 [k \in DOMAIN PendingTargets |-> BranchCond(k)])

\* the next step checks a block that ends in a multi-way branch
SwitchStep ==
    /\ BlockPending /\ PendingTerminator[1] = "SwitchInt"
    /\ log' # log /\ phase' # "panic"

\* the k-th call of check_goto of the step is made for target under the
\* path condition of the block extended by exactly one assumption
BranchPending(k, target) ==
    /\ stack'[k].target = target
    /\ SubSeq(PathConds(pcx', stack'[k].cur), 1, Len(PathConds(pcx', stack'[k].cur)) - 1)
          = PathConds(AtTerminator.pcx, AtTerminator.cur)

LastCond(k) == PathConds(pcx', stack'[k].cur)[Len(PathConds(pcx', stack'[k].cur))]

\* the next step checks a block that check_goto entered at once
BlockStep == BlockPending /\ stack # <<>> /\ log' # log

\* the obligations of the last pass that the solver reports unsafe
FailingCalls ==
    {pcx.nodes[h][5] : h \in {g \in FailingHeads(pcx, kvars) : pcx.nodes[g][4] = "Call"}}

\* what the solver reports for the calls made in a branch
BranchVerdicts ==
    /\ prog.name = "ignore01" =>
          FailingCalls = {EBin("Eq", EBin("Lt", EConst(2), EVar(1)), ETrue)}
    /\ prog.name = "ignore01_implied" => FailingCalls = {}
    /\ prog.name = "call_match" =>
          \E h \in FailingHeads(pcx, kvars) :
              /\ pcx.nodes[h][5] = EBin("Gt", EVar(1), EConst(0))
              /\ AssumedAbove(pcx, h) \cap {EBin("Eq", EVar(1), EConst(1))} = {}
              /\ \A g \in FailingHeads(pcx, kvars) : pcx.nodes[g][1] = pcx.nodes[h][1]

\* C27: check_switch_int dispatches each explicit target under the path
\* condition of the block extended by that target's own condition only, and
\* the otherwise target under the path condition extended by one assumption
\* that holds exactly when every explicit condition fails; the obligations a
\* block emits lie below the cursor the block was entered with, so that a
\* call precondition in a branch is checked under the condition of the
\* branch: if 1 < val { assert(2 < val) } is rejected, if 2 < val
\* { assert(1 < val) } is accepted, and in a match on val the precondition
\* val > 0 is proved in the branch val = 1 and fails in the otherwise branch.
C27_BranchConditions ==
    /\ [][SwitchStep =>
            /\ \A k \in DOMAIN PendingTargets :
                  /\ BranchPending(k, PendingTargets[k][2])
                  /\ LastCond(k) = BranchCond(k)
            /\ BranchPending(Len(PendingTargets) + 1, PendingTerminator[4])
            /\ NegatesAll(LastCond(Len(PendingTargets) + 1))]_vars
    /\ [][BlockStep =>
            \A h \in DOMAIN pcx'.nodes \ DOMAIN pcx.nodes :
                pcx'.nodes[h][2] = "Head"
                    => Head(stack).cur \in Range(PathTo(pcx'.nodes, h))]_vars
    /\ [](phase = "done" => BranchVerdicts)

\* the checking pass of the match on val has ended: the precondition
\* val > 0 of the two calls is an obligation under val = 1 and an
\* obligation under not (val = 1) and not (val = 2); the second one fails
C27_Witness ==
    /\ phase = "done" /\ prog.name = "call_match"
    /\ \E h \in HeadsOf(pcx) \ FailingHeads(pcx, kvars) :
          /\ pcx.nodes[h][5] = EBin("Gt", EVar(1), EConst(0))
          /\ EBin("Eq", EVar(1), EConst(1)) \in AssumedAbove(pcx, h)
    /\ \E h \in FailingHeads(pcx, kvars) :
          /\ pcx.nodes[h][5] = EBin("Gt", EVar(1), EConst(0))
          /\ EBin("And", ENot(EBin("Eq", EVar(1), EConst(1))),
                         ENot(EBin("Eq", EVar(1), EConst(2)))) \in AssumedAbove(pcx, h)

\* the names of the terms visited
FoldNames == 1 .. 3

\* the names fold rebuilds in t: renaming one of them changes t
NamesRebuilt(t) == {x \in FoldNames : FoldTy(RenameFolder(x, 9), t).v # t}

\* C28 as stated: fvars(t) is exactly the set of the free variables that
\* occur in t, those in the arguments and in the scope of a kvar included:
\* the visit reaches every name that fold rebuilds.
C28_FVarsExact ==
    (call.op = "fvars" /\ cpc = "returned") => cout = NamesRebuilt(call.t)

\* fvars has returned the empty set for int{v: $k0(v)[n]}, the existential
\* type whose kvar has the free variable n in its scope
C28_Witness ==
    /\ call.op = "fvars" /\ cpc = "returned"
    /\ call.t = TExists(BInt, PKvarOf(0, <<EBound>>, <<EVar(1)>>))
    /\ NamesRebuilt(call.t) = {1}
    /\ cout = {}

\* the predicates of the existential and of the constrained types of a term
RECURSIVE PredsIn(_)
PredsInBaseTy(bty) ==
    IF bty[1] = "Adt" THEN UNION {PredsIn(bty[3][i]) : i \in DOMAIN bty[3]}
    ELSE IF bty[1] = "Slice" THEN PredsIn(bty[2])
    ELSE {}

PredsIn(ty) ==
    IF ty[1] = "Indexed" THEN PredsInBaseTy(ty[2])
    ELSE IF ty[1] = "Exists" THEN PredsInBaseTy(ty[2]) \cup {ty[3]}
    ELSE IF ty[1] = "Tuple" THEN UNION {PredsIn(ty[2][i]) : i \in DOMAIN ty[2]}
    ELSE IF ty[1] \in {"Ref", "Binders"} THEN PredsIn(ty[3])
    ELSE IF ty[1] = "Constr" THEN {ty[2]} \cup PredsIn(ty[3])
    ELSE {}

\* an indexed type occurs in a term
RECURSIVE HasIndexed(_)
HasIndexedBaseTy(bty) ==
    IF bty[1] = "Adt" THEN \E i \in DOMAIN bty[3] : HasIndexed(bty[3][i])
    ELSE IF bty[1] = "Slice" THEN HasIndexed(bty[2])
    ELSE FALSE

HasIndexed(ty) ==
    IF ty[1] = "Indexed" THEN TRUE
    ELSE IF ty[1] = "Exists" THEN HasIndexedBaseTy(ty[2])
    ELSE IF ty[1] = "Tuple" THEN \E i \in DOMAIN ty[2] : HasIndexed(ty[2][i])
    ELSE IF ty[1] \in {"Ref", "Binders", "Constr"} THEN HasIndexed(ty[3])
    ELSE FALSE

\* C29 as stated: with_holes(t) has no indexed type, every predicate in it
\* is a hole, and with_holes of it is the same term.
C29_OnlyHoles ==
    /\ (call.op = "with_holes" /\ cpc = "returned") =>
          ~HasIndexed(cout) /\ PredsIn(cout) \subseteq {PHole}
    /\ (call.op = "with_holes" /\ cpc = "again") => cout = WithHoles(call.t)

\* with_holes has returned {n > 0} int{v: *} for the constrained type
\* {n > 0} int[n]: the guard is kept
C29_Witness ==
    /\ call.op = "with_holes" /\ cpc = "returned"
    /\ call.t = TConstr(EBin("Gt", EVar(1), EConst(0)), TIndexed(BInt, EVar(1), FALSE))
    /\ cout = TConstr(EBin("Gt", EVar(1), EConst(0)), TExists(BInt, PHole))

\* the sorts of the innermost binder around each hole of a term, in the
\* order of the term; sorts are those of the binder around the term
RECURSIVE HoleSorts(_, _)
RECURSIVE HoleSortsAll(_, _, _)
HoleSortsAll(tys, sorts, i) ==
    IF i > Len(tys) THEN <<>>
    ELSE HoleSorts(tys[i], sorts) \o HoleSortsAll(tys, sorts, i + 1)

RECURSIVE HoleSortsPred(_, _)
HoleSortsPred(pred, sorts) ==
    IF pred = PHole THEN <<sorts>>
    ELSE IF pred[1] = "And" /\ pred[2] # <<>>
    THEN HoleSortsPred(Head(pred[2]), sorts) \o HoleSortsPred(PAnd(Tail(pred[2])), sorts)
    ELSE <<>>

HoleSortsBaseTy(bty, sorts) ==
    IF bty[1] = "Adt" THEN HoleSortsAll(bty[3], sorts, 1)
    ELSE IF bty[1] = "Slice" THEN HoleSorts(bty[2], sorts)
    ELSE <<>>

HoleSorts(ty, sorts) ==
    IF ty[1] = "Indexed" THEN HoleSortsBaseTy(ty[2], sorts)
    ELSE IF ty[1] = "Exists"
    THEN HoleSortsBaseTy(ty[2], sorts) \o HoleSortsPred(ty[3], BtySorts(ty[2]))
    ELSE IF ty[1] = "Tuple" THEN HoleSortsAll(ty[2], sorts, 1)
    ELSE IF ty[1] = "Ref" THEN HoleSorts(ty[3], sorts)
    ELSE IF ty[1] = "Constr" THEN HoleSortsPred(ty[2], sorts) \o HoleSorts(ty[3], sorts)
    ELSE IF ty[1] = "Binders" THEN HoleSorts(ty[3], ty[2])
    ELSE <<>>

\* the kvars mk_pred made that occur in a predicate: kvid and arity
MadeIn(pred) ==
    IF pred[1] = "Kvar" /\ pred[2] > 0 THEN {<<pred[2], Len(pred[3])>>}
    ELSE IF pred[1] = "And"
    THEN {<<pred[2][i][2], Len(pred[2][i][3])>> :
            i \in {j \in DOMAIN pred[2] : pred[2][j][1] = "Kvar" /\ pred[2][j][2] > 0}}
    ELSE {}

\* a hole occurs in a predicate
HoleIn(pred) ==
    \/ pred = PHole
    \/ pred[1] = "And" /\ \E i \in DOMAIN pred[2] : pred[2][i] = PHole

\* C30: replace_holes(t, mk_pred) calls mk_pred once for each hole of t, in
\* the order of the term, with the sorts of the innermost binder around the
\* hole (no sort when there is none; the sorts of the outer binder again
\* after an inner binder); no hole is left, and the predicate of each call
\* is in the result.
C30_HolesReplaced ==
    (call.op = "replace_holes" /\ cpc = "returned") =>
        /\ cfn = HoleSorts(call.t, <<>>)
        /\ \A p \in PredsIn(cout) : ~HoleIn(p)
        /\ UNION {MadeIn(p) : p \in PredsIn(cout)}
              = {<<k, Len(cfn[k])>> : k \in DOMAIN cfn}

\* replace_holes has returned for a term bound over a boolean that holds an
\* existential integer with a hole, then a hole outside the existential:
\* mk_pred received the sort of the integer, then the sort of the binder
C30_Witness ==
    /\ call.op = "replace_holes" /\ cpc = "returned"
    /\ call.t = TBinders(<<"bool">>,
                         TTuple(<<TExists(BInt, PHole), TConstr(PHole, TUninit)>>))
    /\ cfn = <<<<"int">>, <<"bool">>>>
    /\ cout = TBinders(<<"bool">>,
                       TTuple(<<TExists(BInt, PKvarOf(1, <<EBound>>, <<>>)),
                                TConstr(PKvarOf(2, <<EBound>>, <<>>), TUninit)>>))

\* the parent chain of a definition, the definition first
RECURSIVE ParentChain(_, _)
ParentChain(c, d) ==
    IF d = 0 THEN <<>> ELSE <<d>> \o ParentChain(c, c.parent[d])

\* the positions of the parent chain that carry an annotation
Annotated(c) ==
    {i \in DOMAIN ParentChain(c, c.def_id) :
        ParentChain(c, c.def_id)[i] \in DOMAIN c.ignores}

\* the annotation of the nearest annotated item of the chain, No without one
NearestAnnotation(c) ==
    IF Annotated(c) = {} THEN "No"
    ELSE c.ignores[ParentChain(c, c.def_id)[
             CHOOSE i \in Annotated(c) : \A j \in Annotated(c) : i <= j]]

\* the calls that differ from c in the annotation of one item off the chain
OffChainVariants(c) ==
    {[c EXCEPT !.ignores = g] :
        g \in {h \in UNION {[S -> {"Yes", "No"}] : S \in SUBSET DOMAIN c.parent} :
                 \E m \in DOMAIN c.parent \ Range(ParentChain(c, c.def_id)) :
                     /\ DOMAIN h \ {m} = DOMAIN c.ignores \ {m}
                     /\ \A x \in DOMAIN h \ {m} : h[x] = c.ignores[x]}}

\* C31: ignored(def_id) returns the annotation of the nearest item of the
\* parent chain of def_id (def_id included) that has one, and "not ignored"
\* when none has; the walk ends for every def_id; the annotation of an item
\* that is not on the chain does not change the answer.
C31_NearestAnnotation ==
    /\ [](cpc = "returned" =>
            /\ cout = NearestAnnotation(call)
            /\ \A c \in OffChainVariants(call) : IgnoredFrom(c, c.def_id) = cout)
    /\ <>(cpc = "returned")

\* ignored has returned Yes for test_map of ignore01.rs, three modules below
\* the ignored module foo, after walking up to foo
C31_Witness ==
    /\ cpc = "returned"
    /\ call.parent = Ignore01Parents /\ call.def_id = 7
    /\ cfn = 4 /\ cout = "Yes"

\* the spans a tag carries: its fields of type Span, and the span of a field
\* of type Option<Span> that holds one
SpansCarried(tag) ==
    {TagFields(tag)[i] : i \in {j \in DOMAIN TagFields(tag) : TagDecl[TagVariant(tag)][j] = "Span"}}
    \cup {TagFields(tag)[i][2] :
            i \in {j \in DOMAIN TagFields(tag) :
                     /\ TagDecl[TagVariant(tag)][j] = "Option<Span>"
                     /\ TagFields(tag)[j] # SpanNone}}

\* C32 as stated: span() of a tag that carries a span reports that span, and
\* span() reports none only for the tags without a span: Ret, Other and a
\* Goto without a span.
C32_SpanReported ==
    cpc = "returned" =>
        /\ \A s \in SpansCarried(call) : cout = SpanSome(s)
        /\ cout = SpanNone =>
              \/ TagVariant(call) \in {"Ret", "Other"}
              \/ TagVariant(call) = "Goto" /\ TagFields(call)[1] = SpanNone

\* span() has returned None for the tag Overflow(span)
C32_Witness ==
    /\ cpc = "returned"
    /\ TagVariant(call) = "Overflow"
    /\ SpansCarried(call) = {[lo |-> 1, hi |-> 2]}
    /\ cout = SpanNone

\* the nodes of the context pc from the root down to node n
Visible(pc, n) == Range(PathTo(pc.nodes, n))

\* the next step of run pops a join block and checks it
PopPending ==
    /\ Running /\ stack = <<>> /\ queue # <<>>
    /\ DominatorCursor(Head(queue)) # None

\* the nodes down to the snapshot taken at the entry of the immediate
\* dominator of the block popped next
DominatorPath ==
    Visible(pcx, snapshots[ImmediateDominator(prog.body, Head(queue))])

\* node n of the context pc sees, of the nodes there were before the step
\* (those of old), the nodes of path only
SeesOnly(pc, n, old, path) ==
    \A v \in {Visible(pc, n)} : v = {} \/ v \cap old = path

\* C33: a join block popped from the worklist is checked under the context
\* of the snapshot taken at the entry of its immediate dominator, extended
\* only by nodes made while the block is entered and checked: the entry of
\* the block, every node its check adds and every goto it leaves pending see
\* no earlier node other than those down to the dominator's snapshot.
C33_PoppedUnderDominator ==
    [][PopPending =>
          /\ IsJoinPoint(prog.body, Head(queue))
          /\ SeesOnly(pcx', snapshots'[Head(queue)], DOMAIN pcx.nodes, DominatorPath)
          /\ snapshots'[Head(queue)] \notin DOMAIN pcx.nodes \ DominatorPath
          /\ \A i \in DOMAIN pcx'.nodes \ DOMAIN pcx.nodes :
                SeesOnly(pcx', i, DOMAIN pcx.nodes, DominatorPath)
          /\ \A k \in DOMAIN stack' :
                SeesOnly(pcx', stack'[k].cur, DOMAIN pcx.nodes, DominatorPath)
          /\ \A i \in DOMAIN pcx.nodes : pcx'.nodes[i] = pcx.nodes[i]]_vars

\* a join block was popped and checked in the checking pass while the
\* context held an assumption made on a path below its dominator's entry,
\* which the entry of the join block does not see
C33_Witness ==
    /\ log # <<>> /\ log[Len(log)][1] = "pop" /\ log[Len(log)][2] = "check"
    /\ \E i \in DOMAIN pcx.nodes :
          /\ i < snapshots[log[Len(log)][3]]
          /\ pcx.nodes[i][2] = "Pred"
          /\ snapshots[ImmediateDominator(prog.body, log[Len(log)][3])] \in Visible(pcx, i)
          /\ i \notin Visible(pcx, snapshots[log[Len(log)][3]])
    /\ snapshots[log[Len(log)][3]] # snapshots[ImmediateDominator(prog.body, log[Len(log)][3])]

\* the index of the k-th operand of the call: the constant, or the index of
\* the type of the local _k
OperandIndex(k, operand) ==
    IF operand[1] \in {"Int", "Bool"} THEN EConst(operand[2]) ELSE call.tys[k][3]

\* the base type of the k-th operand of the call
OperandBaseTy(k, operand) ==
    IF operand[1] = "Int" THEN BInt
    ELSE IF operand[1] = "Bool" THEN BBool
    ELSE call.tys[k][2]

\* the obligation of a division of the call, at the cursor
DivObligation ==
    <<rcx.cur, "Head", 0, "Div",
      EBin("Ne", OperandIndex(2, call.op2), EConst(0))>>

\* C34: checking a binary operation emits an obligation exactly when the
\* operator is division, and the obligation is that the index of the second
\* operand is not zero; addition, subtraction and multiplication emit none;
\* the type of an arithmetic operation is the base type of the operands
\* indexed by the operator applied to the indices of the two operands.
C34_DivisionObligation ==
    [][cpc = "start" =>
          /\ rcx'.pcx.nodes = IF call.bin_op = "Div"
                              THEN Append(rcx.pcx.nodes, DivObligation)
                              ELSE rcx.pcx.nodes
          /\ rcx'.pcx.err = ""
          /\ call.bin_op \in ArithOps =>
                cout' = TRefine(OperandBaseTy(1, call.op1),
                                EBin(call.bin_op, OperandIndex(1, call.op1),
                                     OperandIndex(2, call.op2)))]_vars

\* the division 2 / _2 is checked with _2 of type int[a]: the obligation
\* a != 0 is at the cursor and the type is int[2 / a]
C34_Witness ==
    /\ cpc = "returned" /\ call.bin_op = "Div"
    /\ call.op1 = OpInt(2) /\ call.op2 = OpCopy(Place(2))
    /\ call.tys[2] = TRefine(BInt, EVar(1))
    /\ rcx.pcx.nodes[Len(rcx.pcx.nodes)]
          = <<rcx.cur, "Head", 0, "Div", EBin("Ne", EVar(1), EConst(0))>>
    /\ cout = TRefine(BInt, EBin("Div", EConst(2), EVar(1)))

\* the condition of the assert terminator of the call, as a predicate
AssertCond ==
    IF call.cond[1] = "Bool" THEN EConst(call.cond[2]) ELSE call.ty[3]

\* the assumption check_assert makes: the condition, negated when the
\* expected value is false
AssertAssumed == IF call.expected THEN AssertCond ELSE ENot(AssertCond)

\* C35: for an assert terminator the condition, negated when the expected
\* value is false, is assumed below the cursor and the target is checked
\* under it; no obligation is emitted for the assertion.
C35_AssertAssumed ==
    [][cpc = "start" =>
          /\ rcx'.pcx.nodes
                = Append(rcx.pcx.nodes, <<rcx.cur, "Pred", 0, "", AssertAssumed>>)
          /\ Len(cout') = 1
          /\ cout'[1].target = call.target
          /\ cout'[1].cur = Len(rcx'.pcx.nodes)
          /\ \A i \in DOMAIN rcx'.pcx.nodes : rcx'.pcx.nodes[i][2] # "Head"]_vars

\* assert(!move _1) with _1 of type bool[a < 2]: the target is left to check
\* below the assumption !(a < 2), and the context holds no obligation
C35_Witness ==
    /\ cpc = "returned" /\ call.cond = OpMove(Place(1)) /\ ~call.expected
    /\ call.ty = TRefine(BBool, EBin("Lt", EVar(1), EConst(2)))
    /\ rcx.pcx.nodes[cout[1].cur]
          = <<rcx.cur, "Pred", 0, "", ENot(EBin("Lt", EVar(1), EConst(2)))>>
    /\ cout[1].target = call.target
    /\ \A i \in DOMAIN rcx.pcx.nodes : rcx.pcx.nodes[i][2] # "Head"

\* the blocks of the worklist
Queued == Range(queue)

SnapshotRequests ==
    {stack[i].target : i \in {j \in DOMAIN stack : IsJoinPoint(prog.body, stack[j].target)}}
    \cup Queued

\* block bb lies on a cycle of the control-flow graph
OnCycle(bb) ==
    bb \in ReachAvoiding(prog.body,
                         Range(Successors(BlockData(prog.body, bb).terminator)), NoBlock)

\* C37: whenever the snapshot of the immediate dominator of a block is
\* requested, by a check_goto to a join block or for a block popped from
\* the worklist, the dominator was checked in the pass and its snapshot is
\* there and is a node of the context; loops included.
C37_DominatorSnapshot ==
    Running =>
        \A bb \in SnapshotRequests :
            /\ Checks(phase, ImmediateDominator(prog.body, bb)) >= 1
            /\ snapshots[ImmediateDominator(prog.body, bb)] # None
            /\ DominatorCursor(bb) # None

\* a check_goto along a back edge is pending: its target is a join block on
\* a cycle that was already checked in the pass, and the snapshot of its
\* dominator is there
C37_Witness ==
    /\ Running /\ stack # <<>>
    /\ IsJoinPoint(prog.body, Head(stack).target)
    /\ OnCycle(Head(stack).target)
    /\ Checks(phase, Head(stack).target) >= 1
    /\ DominatorCursor(Head(stack).target) # None

\* the blocks with a stored environment in the mode of the pass
StoredEnvs == IF phase = "infer" THEN DOMAIN inf_envs ELSE DOMAIN chk_envs

\* C38: every block of the worklist has a stored block environment in the
\* mode of the pass: the environment of a join block is stored no later than
\* the check_goto that queues the block, and it is there when the block is
\* popped and entered.
C38_QueuedHasEnv ==
    /\ [](Running => Queued \subseteq StoredEnvs)
    /\ [][Running =>
            /\ \A bb \in Range(queue') \ Queued :
                  IF phase = "infer" THEN bb \in DOMAIN inf_envs'
                  ELSE bb \in DOMAIN chk_envs'
            /\ (stack = <<>> /\ queue # <<>>) => Head(queue) \in StoredEnvs]_vars

\* in the checking pass a join block is in the worklist: its basic-block
\* environment was made from its shape, which is no longer in the map
C38_Witness ==
    /\ phase = "check" /\ Len(log) < MaxSteps
    /\ queue # <<>>
    /\ Head(queue) \in DOMAIN chk_envs
    /\ Head(queue) \notin DOMAIN shapes
    /\ Head(queue) \in DOMAIN inf_envs

\* a call of InferCtxt::subtyping has run, to its return or to a panic
SubtypingRan == call.op = "infer" /\ cpc # "start"

\* C39: the stack of scopes of an inference context is never empty and is
\* balanced: every call of subtyping, nested calls included, returns with
\* the stack at the depth it had on entry, and the scope of every evar
\* inspected for unification is on the stack when it is looked up.
C39_ScopesBalanced ==
    SubtypingRan =>
        /\ \A i \in DOMAIN infcx.depths : infcx.depths[i] >= 1
        /\ \A i \in DOMAIN infcx.returns : infcx.returns[i][1] = infcx.returns[i][2]
        /\ Len(infcx.scopes) = 1 /\ infcx.returns # <<>>
        /\ rcx.pcx.err # "no entry found for key"

\* subtyping has returned from a comparison with an existential type: a
\* scope was pushed and popped, a nested call ran at depth two, and the evar
\* of the pushed scope was unified while its scope was on the stack
C39_Witness ==
    /\ SubtypingRan /\ cpc = "solve"
    /\ Len(infcx.scopes) = 1
    /\ \E i \in DOMAIN infcx.returns : infcx.returns[i] = <<2, 2>>
    /\ \E n \in SolvedEVars : infcx.evars[n].cx = 2

\* the evars a pair of indices assigned: those whose solution is not the one
\* they had before the pair
AssignedBy(p) == {n \in DOMAIN p.before : p.after[n].sol # p.before[n].sol}

\* C40: unification assigns only an evar standing on the right-hand side of
\* a pair of refinement indices: an evar on the left-hand side is never
\* assigned by that pair, and a pair of syntactically equal indices unifies
\* nothing and emits no obligation.
C40_RightSideOnly ==
    SubtypingRan =>
        \A i \in DOMAIN infcx.pairs :
            /\ \A n \in AssignedBy(infcx.pairs[i]) :
                  /\ infcx.pairs[i].arg2 = EEVar(n)
                  /\ infcx.pairs[i].arg1 # EEVar(n)
                  /\ infcx.pairs[i].after[n].sol = <<infcx.pairs[i].arg1>>
            /\ Len(infcx.pairs[i].after) = Len(infcx.pairs[i].before)
            /\ infcx.pairs[i].arg1 = infcx.pairs[i].arg2 =>
                  /\ infcx.pairs[i].after = infcx.pairs[i].before
                  /\ infcx.pairs[i].nodes = 0

\* subtyping has compared int[?1] with int[n]: the evar stands on the left
\* of the pair, the obligation ?1 = n was emitted and the evar has no
\* solution
C40_Witness ==
    /\ SubtypingRan /\ cpc # "panic"
    /\ call.ty1 = TIndexed(BInt, EEVar(1), FALSE)
    /\ \E i \in DOMAIN infcx.pairs :
          /\ infcx.pairs[i].arg1 = EEVar(1)
          /\ infcx.pairs[i].arg2 = SubN
          /\ infcx.pairs[i].nodes = 1
          /\ AssignedBy(infcx.pairs[i]) = {}
    /\ infcx.evars[1].sol = <<>>

====
